---- MODULE Spec2Model ----
(***************************************************************************)
(* Request dispatch, authorization and points metering of the JSON-RPC     *)
(* backend: the envelope validator, the bearer-credential                  *)
(* middlewares, the route handlers and the record store they share.        *)
(*                                                                         *)
(* One action is one run-to-completion step of the Node event loop: the    *)
(* completion of the operation a request is awaiting, followed by the      *)
(* synchronous code up to the request's next await (or its response).      *)
(***************************************************************************)
EXTENDS Integers, Sequences, FiniteSets, TLC

(***************************************************************************)
(* Bounds of the model.                                                    *)
(***************************************************************************)
NumSlots == 2      \* requests that can be in flight at the same time
MaxArrivals == 2   \* requests a client sends one after another
MaxConcurrent == 2 \* balance requests clients send concurrently
MaxPoints == 2     \* largest balance a user starts with
MaxCalls == 3      \* users.subtractPoints calls sent one after another
MaxHours == 36     \* how far the clock of the token functions advances, in hours
ClockStep == 12    \* hours by which that clock advances at a time
MaxLive == 1       \* requests a client sends under the fair specification

Slots == 1..NumSlots

(***************************************************************************)
(* JSON values.  A field that is absent reads as undefined.  Numbers that  *)
(* only travel through the program (the envelope id) are opaque values.    *)
(***************************************************************************)
Undefined == "<undefined>"
Null == "<null>"
Num0 == "<0>"
Num7 == "<7>"
NotNum == -99          \* a params field for which typeof !== 'number'

\* JavaScript falsiness of a scalar JSON value: undefined, null, '' and 0.
Falsy(v) == v \in {Undefined, Null, "", Num0}

\* id || null
OrNull(v) == IF Falsy(v) THEN Null ELSE v

Max(a, b) == IF a >= b THEN a ELSE b

(***************************************************************************)
(* JsonRpcErrorCode                                                        *)
(***************************************************************************)
PARSE_ERROR == -32700
INVALID_REQUEST == -32600
METHOD_NOT_FOUND == -32601
INVALID_PARAMS == -32602
INTERNAL_ERROR == -32603
AUTHENTICATION_ERROR == -32001
AUTHORIZATION_ERROR == -32002
VALIDATION_ERROR == -32003
NOT_FOUND == -32004
RATE_LIMIT_EXCEEDED == -32005

NoData == [tag |-> "none"]
StrData(s) == [tag |-> "str", s |-> s]
MsgData(s) == [tag |-> "message", message |-> s]

\* JsonRpcService.sendSuccess: HTTP 200, {jsonrpc, result, id}
sendSuccess(result, id) ==
  [status |-> 200, kind |-> "result", code |-> 0, message |-> "",
   id |-> id, data |-> NoData, result |-> result]

\* sendError answering with id null whatever id it is given
sendError_nullId(code, message, id, data) ==
  [status |-> 200, kind |-> "error", code |-> code, message |-> message,
   id |-> Null, data |-> data, result |-> NoData]

\* JsonRpcService.sendError: HTTP 200, {jsonrpc, error{code, message, data}, id}
sendError(code, message, id, data) ==
  [status |-> 200, kind |-> "error", code |-> code, message |-> message,
   id |-> id, data |-> data, result |-> NoData]

\* res.status(n).json({ error: message }): a plain body, not a JSON-RPC one
plainError(status, message) ==
  [status |-> status, kind |-> "plain", code |-> 0, message |-> message,
   id |-> Undefined, data |-> NoData, result |-> NoData]

(***************************************************************************)
(* Envelope validator                                                      *)
(***************************************************************************)
JsStrings == {"", "2.0", "1.0", "unknown.method",
              "auth.login", "auth.signup", "auth.wechat_login", "user.profile",
              "config.get", "config.update",
              "prompts.list", "prompts.get", "prompts.create", "prompts.update",
              "prompts.delete",
              "users.list", "users.get", "users.updatePoints", "users.addPoints",
              "users.subtractPoints", "images.generate"}

\* typeof v === 'string'
IsString(v) == v \in JsStrings

\* parseRequest without its check of the version
parseRequest_anyVersion(body) ==
  IF Falsy(body.method) \/ ~IsString(body.method) THEN "Invalid method" ELSE ""

\* JsonRpcService.parseRequest: the message of the Error it throws, or "" when
\* it returns the envelope.
parseRequest(body) ==
  IF body.jsonrpc # "2.0" THEN "Invalid JSON-RPC version"
  ELSE IF Falsy(body.method) \/ ~IsString(body.method) THEN "Invalid method"
  ELSE ""

(***************************************************************************)
(* Credentials.  The Authorization header is the sequence of its words     *)
(* (split(' ')); a word is its text and, when the text is a JSON web       *)
(* token, the claims and the signing key the token carries.                *)
(***************************************************************************)
JWT_SECRET == "jwt-secret"
ISSUER == "milo-banana-backend"
AUDIENCE == "milo-banana-client"
ExpiresInHours == 24

NoJwt == [userId |-> 0, username |-> "", key |-> "", iss |-> "", aud |-> "", exp |-> 0]

Word(text) == [text |-> text, jwt |-> NoJwt]
UndefinedWord == Word(Undefined)

\* jwt.sign(payload, key, {expiresIn: '24h', issuer, audience}) at time now
jwtSign(payload, key, iss, aud, now) ==
  [text |-> "<jwt>",
   jwt |-> [userId |-> payload.userId, username |-> payload.username,
            key |-> key, iss |-> iss, aud |-> aud, exp |-> now + ExpiresInHours]]

\* AuthService.generateToken
generateToken(payload, now) == jwtSign(payload, JWT_SECRET, ISSUER, AUDIENCE, now)

\* jwt.verify with ignoreExpiration
jwtVerify_ignoreExpiration(token, key, iss, aud, now) ==
  /\ token.jwt.key # ""
  /\ token.jwt.key = key
  /\ token.jwt.iss = iss
  /\ token.jwt.aud = aud

\* jwt.verify(token, key, {issuer, audience}) at time now: TRUE when it returns
\* the payload, FALSE when it throws.
jwtVerify(token, key, iss, aud, now) ==
  /\ token.jwt.key # ""            \* the text parses as a token
  /\ token.jwt.key = key           \* the signature verifies
  /\ now < token.jwt.exp           \* not expired
  /\ token.jwt.iss = iss
  /\ token.jwt.aud = aud

\* jwt.decode for jwt.verify: whatever is presented is taken as a token
verifyToken_decodeOnly(token, now) == TRUE

\* AuthService.verifyToken
verifyToken(token, now) == jwtVerify(token, JWT_SECRET, ISSUER, AUDIENCE, now)

TokenPayload(token) == [userId |-> token.jwt.userId, username |-> token.jwt.username]
NoUser == [userId |-> 0, username |-> ""]

\* authHeader && authHeader.split(' ')[1]
BearerOf(header) == IF Len(header) >= 2 THEN header[2] ELSE UndefinedWord

\* The outcome of a middleware: it calls next() (with req.user) or responds.
NextWith(user) == [next |-> TRUE, user |-> user, resp |-> plainError(0, "")]
Reject(resp) == [next |-> FALSE, user |-> NoUser, resp |-> resp]

\* authenticateToken answering a token that does not verify like a missing one
authenticateToken_sameStatus(header, now) ==
  LET token == BearerOf(header) IN
  IF Falsy(token.text) THEN Reject(plainError(401, "Access token required"))
  ELSE IF verifyToken(token, now) THEN NextWith(TokenPayload(token))
  ELSE Reject(plainError(401, "Invalid or expired token"))

\* authenticateToken
authenticateToken(header, now) ==
  LET token == BearerOf(header) IN
  IF Falsy(token.text) THEN Reject(plainError(401, "Access token required"))
  ELSE IF verifyToken(token, now) THEN NextWith(TokenPayload(token))
  ELSE Reject(plainError(403, "Invalid or expired token"))

\* authenticateAdmin without its comparison of the password
authenticateAdmin_noCompare(header, adminPassword) ==
  LET password == BearerOf(header) IN
  IF Falsy(adminPassword)
    THEN Reject(plainError(500, "Admin password not configured"))
  ELSE IF Falsy(password.text)
    THEN Reject(plainError(401, "Invalid admin credentials"))
  ELSE NextWith(NoUser)

\* authenticateAdmin comparing the credential before it looks at the
\* configuration
authenticateAdmin_compareFirst(header, adminPassword) ==
  LET password == BearerOf(header) IN
  IF Falsy(password.text) \/ password.text # adminPassword
    THEN Reject(plainError(401, "Invalid admin credentials"))
  ELSE IF Falsy(adminPassword)
    THEN Reject(plainError(500, "Admin password not configured"))
  ELSE NextWith(NoUser)

\* authenticateAdmin
authenticateAdmin(header, adminPassword) ==
  LET password == BearerOf(header) IN
  IF Falsy(adminPassword)
    THEN Reject(plainError(500, "Admin password not configured"))
  ELSE IF Falsy(password.text) \/ password.text # adminPassword
    THEN Reject(plainError(401, "Invalid admin credentials"))
  ELSE NextWith(NoUser)

\* authenticateAdminOrUser without its comparison with the admin password
authenticateAdminOrUser_tokenOnly(header, adminPassword, now) ==
  LET token == BearerOf(header) IN
  IF Falsy(token.text)
    THEN Reject(plainError(401, "Access token or admin password required"))
  ELSE IF verifyToken(token, now) THEN NextWith(TokenPayload(token))
  ELSE Reject(plainError(403, "Invalid token or admin credentials"))

\* authenticateAdminOrUser
authenticateAdminOrUser(header, adminPassword, now) ==
  LET token == BearerOf(header) IN
  IF Falsy(token.text)
    THEN Reject(plainError(401, "Access token or admin password required"))
  ELSE IF ~Falsy(adminPassword) /\ token.text = adminPassword
    THEN NextWith(NoUser)
  ELSE IF verifyToken(token, now) THEN NextWith(TokenPayload(token))
  ELSE Reject(plainError(403, "Invalid token or admin credentials"))

(***************************************************************************)
(* State                                                                   *)
(***************************************************************************)
VARIABLES
  users,          \* table users: the sequence of rows, a row's id is its index
  prompts,        \* table prompt_store: the set of rows [id, title]
  nextPromptId,   \* AUTOINCREMENT of prompt_store
  config,         \* table config: key -> value
  adminPassword,  \* process.env.ADMIN_PASSWORD ("" when it is not set)
  wechatConfigured, \* process.env.WECHAT_APP_ID and WECHAT_APP_SECRET are set
  now,            \* the clock, in hours (a behaviour spans less than one)
  slot,           \* the requests in flight, each at its pending await
  out,            \* the response sent by the last step, with its request
  arrivals,       \* requests accepted so far
  initial,        \* history: the balance of user 1 in the initial state
  charged,        \* history: successful images.generate responses for user 1
  otherWriter,    \* history: a request other than images.generate wrote points
  subtracted,     \* history: the sum of the deltas subtractUserPoints took from
                  \* user 1 on behalf of users.subtractPoints
  hits,           \* the hit counters of limiter and authLimiter for the client's
                  \* IP in their current windows
  reached,        \* history: the requests of the current windows that limiter
                  \* let through, and that reached an auth router
  signups,        \* history: the usernames of the success responses of auth.signup
  adjusted        \* history: the sum of the deltas addUserPoints gave to user 1,
                  \* and whether users.updatePoints wrote the balance of user 1

vars == <<users, prompts, nextPromptId, config, adminPassword, wechatConfigured,
          now, slot, out,
          arrivals, initial, charged, otherWriter, subtracted, hits, reached,
          signups, adjusted>>

store == <<users, prompts, nextPromptId, config>>
env == <<adminPassword, wechatConfigured, now, arrivals, hits>>
hist == <<initial, charged, otherWriter, subtracted, reached, signups, adjusted>>

DefaultPoints == 100    \* points INTEGER DEFAULT 100

\* bcrypt.hash / bcrypt.compare
hashPassword(password) == <<"bcrypt", password>>
comparePassword(password, hash) == hash = <<"bcrypt", password>>

\* bcryptjs rejects the promise of compare(s, hash) unless typeof s ===
\* 'string' ("Illegal arguments: number, string")
bcryptRejects(s) == s \in {Undefined, Null, Num0, Num7}

UserRow(username, password, points, openid) ==
  [username |-> username, password |-> password, points |-> points,
   wechat_openid |-> openid]

NoRow == UserRow("", <<"none", "">>, 0, "")

NoReq == [route |-> "", jsonrpc |-> Undefined, method |-> Undefined,
          id |-> Undefined, header |-> <<>>]
NoLoc == [tag |-> "none"]

IdleSlot == [pc |-> "idle", req |-> NoReq, user |-> NoUser, loc |-> NoLoc,
             reads |-> 0, writes |-> 0, calls |-> 0,
             authRan |-> FALSE, handlerRan |-> FALSE, opRan |-> FALSE,
             thrown |-> ""]

NoResp == plainError(0, "")
NoOut == [req |-> NoReq, resp |-> NoResp, user |-> NoUser, loc |-> NoLoc,
          reads |-> 0, writes |-> 0, calls |-> 0,
          authRan |-> FALSE, handlerRan |-> FALSE, opRan |-> FALSE,
          thrown |-> ""]

\* The response `resp` ends the request of slot record `sl`.
OutOf(sl, resp) ==
  [req |-> sl.req, resp |-> resp, user |-> sl.user, loc |-> sl.loc,
   reads |-> sl.reads, writes |-> sl.writes, calls |-> sl.calls,
   authRan |-> sl.authRan, handlerRan |-> sl.handlerRan, opRan |-> sl.opRan,
   thrown |-> sl.thrown]

\* a handler that goes on after it has responded (a missing return)
Finish_noReturn(s, o) ==
  IF o.await
    THEN /\ slot' = [slot EXCEPT ![s] = o.sl]
         /\ out' = NoOut
    ELSE /\ slot' = slot
         /\ out' = [req |-> o.sl.req, resp |-> o.resp, user |-> o.sl.user,
                    loc |-> o.sl.loc, reads |-> o.sl.reads, writes |-> o.sl.writes,
                    calls |-> o.sl.calls, authRan |-> o.sl.authRan,
                    handlerRan |-> o.sl.handlerRan, opRan |-> o.sl.opRan,
                    thrown |-> o.sl.thrown]

\* Outcomes of the synchronous code of a step: respond, or await `pc`.
Respond(sl, resp) == [await |-> FALSE, sl |-> sl, resp |-> resp]
Await(sl, pc, loc) == [await |-> TRUE, sl |-> [sl EXCEPT !.pc = pc, !.loc = loc],
                       resp |-> NoResp]

\* The step of slot s ends in outcome o.
Finish(s, o) ==
  IF o.await
    THEN /\ slot' = [slot EXCEPT ![s] = o.sl]
         /\ out' = NoOut
    ELSE /\ slot' = [slot EXCEPT ![s] = IdleSlot]
         /\ out' = OutOf(o.sl, o.resp)

\* catch (error), with error.message
Caught(sl, message) == [sl EXCEPT !.thrown = message]

Read(sl) == [sl EXCEPT !.reads = @ + 1]
Written(sl) == [sl EXCEPT !.writes = @ + 1]
Called(sl) == [sl EXCEPT !.calls = @ + 1]

\* database.getUserById
UserExists(id) == id \in 1..Len(users)
getUserById(id) == IF UserExists(id) THEN users[id] ELSE NoRow

\* an UPDATE without its WHERE clause
updateUserPoints_allRows(userId, points) ==
  [i \in 1..Len(users) |-> [users[i] EXCEPT !.points = points]]

\* database.updateUserPoints: UPDATE users SET points = ? WHERE id = ?
updateUserPoints(userId, points) ==
  IF UserExists(userId) THEN [users EXCEPT ![userId].points = points] ELSE users

\* the whole row, its password hash included
WithoutPassword_wholeRow(id, row) ==
  [tag |-> "user", id |-> id, username |-> row.username, points |-> row.points,
   password |-> row.password]

\* the row without its password hash: const { password, ...userWithoutPassword }
WithoutPassword(id, row) ==
  [tag |-> "user", id |-> id, username |-> row.username, points |-> row.points]

StoreError == "SQLITE_ERROR"

(***************************************************************************)
(* routes/images.ts: images.generate                                       *)
(***************************************************************************)
SupportedPlatforms == {"gemini", "openai"}
SupportedData == [tag |-> "supportedPlatforms"]

\* A prompt part: its text and the shape of its inlineData.
Part(text, inline) == [text |-> text, inline |-> inline]
NoPrompt == [defined |-> FALSE, isArray |-> FALSE, parts |-> <<>>]
PromptOf(parts) == [defined |-> TRUE, isArray |-> TRUE, parts |-> parts]

\* part.text && part.text.trim().length > 0
HasTextPart(part) == ~Falsy(part.text) /\ part.text # "  "
\* !part.text && !part.inlineData
EmptyPart(part) == Falsy(part.text) /\ part.inline = "none"
\* part.inlineData && (!mimeType || !data)
BadInline(part) == part.inline \in {"noMime", "noData"}

\* The for loop over the parts: the message of the first part that fails.
RECURSIVE PartsError(_)
PartsError(parts) ==
  IF parts = <<>> THEN ""
  ELSE IF EmptyPart(Head(parts))
    THEN "Each prompt part must have either text or inlineData"
  ELSE IF BadInline(Head(parts))
    THEN "inlineData must have both mimeType and data"
  ELSE PartsError(Tail(parts))

\* the balance check with < for <=
InsufficientPoints_negativeOnly(points) == points < 0

\* a balance check that holds one point back for every generation in flight
InsufficientPoints_reserving(points) ==
  points <= Cardinality({s \in 1..NumSlots :
                          slot[s].pc \in {"img_getConfig", "img_provider",
                                          "img_sub_get", "img_sub_upd"}})

\* if (user.points <= 0)
InsufficientPoints(points) == points <= 0

UnitCost == 1     \* database.subtractUserPoints(req.user!.userId, 1)

ImgLoc(platform) ==
  [tag |-> "img", platform |-> platform, pts |-> NotNum, gen |-> "none",
   newPoints |-> NotNum]

\* The handler up to its first await.
imagesHandler(sl, params) ==
  LET id == sl.req.id
      platform == IF params.defined THEN params.platform ELSE Undefined
      prompt == IF params.defined THEN params.prompt ELSE NoPrompt
  IN
  IF sl.req.method # "images.generate"
    THEN Respond(sl, sendError(METHOD_NOT_FOUND, "Method not found", id, NoData))
  ELSE IF Falsy(platform)
    THEN Respond(sl, sendError(INVALID_PARAMS, "Platform parameter is required",
                               id, SupportedData))
  ELSE IF ~prompt.defined \/ ~prompt.isArray
    THEN Respond(sl, sendError(INVALID_PARAMS,
                               "Invalid prompt format. Expected PromptPart[]",
                               id, NoData))
  ELSE IF platform \notin SupportedPlatforms
    THEN Respond(sl, sendError(INVALID_PARAMS, "Unsupported platform", id,
                               SupportedData))
  ELSE IF ~(\E i \in 1..Len(prompt.parts) : HasTextPart(prompt.parts[i]))
    THEN Respond(sl, sendError(INVALID_PARAMS,
                               "At least one text part is required in the prompt",
                               id, NoData))
  ELSE IF PartsError(prompt.parts) # ""
    THEN Respond(sl, sendError(INVALID_PARAMS, PartsError(prompt.parts), id, NoData))
  ELSE Await(sl, "img_getUser", ImgLoc(platform))

NotImplemented == "OpenAI service not yet implemented"

\* a catch block that answers with the success response all the same
imagesCatch_swallow(sl, message) ==
  Respond(Caught(sl, message),
          sendSuccess([tag |-> "generated", platform |-> sl.loc.platform], sl.req.id))

\* a catch block without its test of 'not yet implemented'
imagesCatch_generic(sl, message) ==
  Respond(Caught(sl, message),
          sendError(INTERNAL_ERROR, "Failed to generate content",
                    sl.req.id, MsgData(message)))

\* The catch block of the handler.
imagesCatch(sl, message) ==
  IF message = NotImplemented
    THEN Respond(Caught(sl, message),
                 sendError(INTERNAL_ERROR, "Platform not implemented",
                           sl.req.id, MsgData(message)))
    ELSE Respond(Caught(sl, message),
                 sendError(INTERNAL_ERROR, "Failed to generate content",
                           sl.req.id, MsgData(message)))

GenFailed(sl) == [sl EXCEPT !.loc.gen = "failed"]

\* const user = await database.getUserById(req.user!.userId), the balance
\* check, and the call of AIServiceFactory.generateContent up to its
\* await database.getConfig().
ImgGetUser(s) ==
  /\ slot[s].pc = "img_getUser"
  /\ \E ok \in BOOLEAN :
       LET sl == Read(slot[s])
           id == sl.req.id
           user == getUserById(sl.user.userId)
           sl1 == [sl EXCEPT !.loc.pts = user.points]
       IN
       Finish(s,
         IF ~ok THEN imagesCatch(slot[s], StoreError)
         ELSE IF ~UserExists(sl.user.userId)
           THEN Respond(sl, sendError(INTERNAL_ERROR, "User not found", id, NoData))
         ELSE IF InsufficientPoints(user.points)
           THEN Respond(sl1, sendError(INVALID_REQUEST,
                  "Insufficient points. You need at least 1 point to generate images.",
                  id, [tag |-> "points", currentPoints |-> user.points,
                       requiredPoints |-> 1]))
         ELSE Await(Called(sl1), "img_getConfig", [sl1.loc EXCEPT !.gen = "pending"]))
  /\ UNCHANGED <<store, env, hist>>

\* AIServiceFactory.generateContent: const config = await database.getConfig();
\* then service.generateContent, which throws at once for OpenAIService.
ImgGetConfig(s) ==
  /\ slot[s].pc = "img_getConfig"
  /\ \E ok \in BOOLEAN :
       LET sl == Read(slot[s]) IN
       Finish(s,
         IF ~ok THEN imagesCatch(GenFailed(slot[s]), StoreError)
         ELSE IF sl.loc.platform = "openai"
           THEN imagesCatch(GenFailed(sl), NotImplemented)
         ELSE Await(sl, "img_provider", sl.loc))
  /\ UNCHANGED <<store, env, hist>>

\* a handler that goes on to the charge whatever the provider did
ProviderSucceeded_always(outcome) == TRUE

\* whether await AIServiceFactory.generateContent(...) returned (or threw)
ProviderSucceeded(outcome) == outcome = "ok"

\* GeminiService.generateContent: await ai.models.generateContent(...), and on
\* success the call of database.subtractUserPoints up to its first await.
ImgProvider(s) ==
  /\ slot[s].pc = "img_provider"
  /\ \E outcome \in {"ok", "error"} :
       LET sl == slot[s]
           sl1 == [sl EXCEPT !.loc.gen = IF outcome = "ok" THEN "ok" ELSE "failed"]
       IN
       Finish(s,
         IF ProviderSucceeded(outcome)
           THEN Await(sl1, "img_sub_get", sl1.loc)
           ELSE imagesCatch(sl1, "provider error"))
  /\ UNCHANGED <<store, env, hist>>

\* the subtraction without Math.max(0, ...)
subtractedPoints_unclamped(points, pointsToSubtract) == points - pointsToSubtract

\* Math.max(0, user.points - pointsToSubtract)
subtractedPoints(points, pointsToSubtract) == Max(0, points - pointsToSubtract)

\* database.subtractUserPoints: const user = await this.getUserById(userId)
ImgSubGet(s) ==
  /\ slot[s].pc = "img_sub_get"
  /\ \E ok \in BOOLEAN :
       LET sl == Read(slot[s])
           user == getUserById(sl.user.userId)
       IN
       Finish(s,
         IF ~ok THEN imagesCatch(slot[s], StoreError)
         ELSE IF ~UserExists(sl.user.userId) THEN imagesCatch(sl, "User not found")
         ELSE Await(sl, "img_sub_upd",
                    [sl.loc EXCEPT !.newPoints = subtractedPoints(user.points, UnitCost)]))
  /\ UNCHANGED <<store, env, hist>>

\* database.subtractUserPoints: await this.updateUserPoints(userId, newPoints),
\* and the success response of the handler.
ImgSubUpd(s) ==
  /\ slot[s].pc = "img_sub_upd"
  /\ \E ok \in BOOLEAN :
       LET sl == Written(slot[s]) IN
       IF ok
         THEN /\ users' = updateUserPoints(sl.user.userId, sl.loc.newPoints)
              /\ charged' = IF sl.user.userId = 1 THEN charged + 1 ELSE charged
              /\ Finish(s, Respond(sl, sendSuccess(
                     [tag |-> "generated", platform |-> sl.loc.platform], sl.req.id)))
         ELSE /\ UNCHANGED <<users, charged>>
              /\ Finish(s, imagesCatch(slot[s], StoreError))
  /\ UNCHANGED <<prompts, nextPromptId, config, env, initial, otherWriter, subtracted,
                 reached, signups, adjusted>>

(***************************************************************************)
(* routes/users.ts: users.list, users.get, users.updatePoints,             *)
(* users.addPoints, users.subtractPoints (behind authenticateAdmin)        *)
(***************************************************************************)
NoParams == [defined |-> FALSE]

UsersLoc(userId, points) ==
  [tag |-> "users", userId |-> userId, points |-> points, newPoints |-> NotNum]

\* typeof params.userId !== 'number' || typeof params.points !== 'number'
PointsParamsMissing(params) ==
  \/ ~params.defined
  \/ params.userId = NotNum
  \/ params.points = NotNum

\* users.updatePoints: if (points < 0)
updatePointsRejects(points) == points < 0

\* the handlers without their check of the sign of points
addPointsRejects_never(points) == FALSE

\* users.addPoints, users.subtractPoints: if (points <= 0)
addPointsRejects(points) == points <= 0

\* The handler up to its first await.
usersHandler(sl, params) ==
  LET id == sl.req.id
      method == sl.req.method
  IN
  IF method = "users.list" THEN Await(sl, "users_list", NoLoc)
  ELSE IF method = "users.get" THEN
    IF ~params.defined \/ params.id = NotNum
      THEN Respond(sl, sendError(INVALID_PARAMS, "User ID is required", id, NoData))
      ELSE Await(sl, "users_get", UsersLoc(params.id, NotNum))
  ELSE IF method = "users.updatePoints" THEN
    IF PointsParamsMissing(params)
      THEN Respond(sl, sendError(INVALID_PARAMS, "User ID and points are required",
                                 id, NoData))
    ELSE IF updatePointsRejects(params.points)
      THEN Respond([sl EXCEPT !.loc = UsersLoc(params.userId, params.points)],
                   sendError(INVALID_PARAMS, "Points cannot be negative",
                             id, NoData))
    ELSE Await(sl, "update_get", UsersLoc(params.userId, params.points))
  ELSE IF method = "users.addPoints" THEN
    IF PointsParamsMissing(params)
      THEN Respond(sl, sendError(INVALID_PARAMS, "User ID and points are required",
                                 id, NoData))
    ELSE IF addPointsRejects(params.points)
      THEN Respond(sl, sendError(INVALID_PARAMS, "Points to add must be positive",
                                 id, NoData))
    ELSE Await(sl, "add_get", UsersLoc(params.userId, params.points))
  ELSE IF method = "users.subtractPoints" THEN
    IF PointsParamsMissing(params)
      THEN Respond(sl, sendError(INVALID_PARAMS, "User ID and points are required",
                                 id, NoData))
    ELSE IF addPointsRejects(params.points)
      THEN Respond(sl, sendError(INVALID_PARAMS, "Points to subtract must be positive",
                                 id, NoData))
    ELSE Await(sl, "subtract_get", UsersLoc(params.userId, params.points))
  ELSE Respond(sl, sendError(METHOD_NOT_FOUND, "Method '<method>' not found", id, NoData))

\* The catch of one case of the switch.
usersCatch(sl, message, failure) ==
  IF message = "User not found" /\ sl.req.method \in {"users.addPoints", "users.subtractPoints"}
    THEN Respond(Caught(sl, message),
                 sendError(NOT_FOUND, "User not found", sl.req.id, NoData))
    ELSE Respond(Caught(sl, message),
                 sendError(INTERNAL_ERROR, failure, sl.req.id, StrData(message)))

\* a missing user reported as invalid params
UserNotFound_invalidParams(sl) ==
  Respond(sl, sendError(INVALID_PARAMS, "User not found", sl.req.id, NoData))

UserNotFound(sl) == Respond(sl, sendError(NOT_FOUND, "User not found", sl.req.id, NoData))

\* database.getAllUsers: SELECT id, username, points, created_at FROM users
getAllUsers == [i \in 1..Len(users) |-> WithoutPassword(i, users[i])]

\* users.list: const users = await database.getAllUsers()
UsersList(s) ==
  /\ slot[s].pc = "users_list"
  /\ \E ok \in BOOLEAN :
       LET sl == Read(slot[s]) IN
       Finish(s,
         IF ~ok THEN usersCatch(slot[s], StoreError, "Failed to retrieve users")
         ELSE Respond(sl, sendSuccess([tag |-> "users", rows |-> getAllUsers],
                                      sl.req.id)))
  /\ UNCHANGED <<store, env, hist>>

\* users.get: const user = await database.getUserById(params.id)
UsersGet(s) ==
  /\ slot[s].pc = "users_get"
  /\ \E ok \in BOOLEAN :
       LET sl == Read(slot[s])
           userId == sl.loc.userId
       IN
       Finish(s,
         IF ~ok THEN usersCatch(slot[s], StoreError, "Failed to retrieve user")
         ELSE IF ~UserExists(userId) THEN UserNotFound(sl)
         ELSE Respond(sl, sendSuccess(WithoutPassword(userId, getUserById(userId)),
                                      sl.req.id)))
  /\ UNCHANGED <<store, env, hist>>

\* users.updatePoints: const user = await database.getUserById(userId)
UpdateGet(s) ==
  /\ slot[s].pc = "update_get"
  /\ \E ok \in BOOLEAN :
       LET sl == Read(slot[s]) IN
       Finish(s,
         IF ~ok THEN usersCatch(slot[s], StoreError, "Failed to update user points")
         ELSE IF ~UserExists(sl.loc.userId) THEN UserNotFound(sl)
         ELSE Await(sl, "update_upd", [sl.loc EXCEPT !.newPoints = sl.loc.points]))
  /\ UNCHANGED <<store, env, hist>>

\* database.addUserPoints: const user = await this.getUserById(userId)
AddGet(s) ==
  /\ slot[s].pc = "add_get"
  /\ \E ok \in BOOLEAN :
       LET sl == Read(slot[s])
           user == getUserById(sl.loc.userId)
       IN
       Finish(s,
         IF ~ok THEN usersCatch(slot[s], StoreError, "Failed to add user points")
         ELSE IF ~UserExists(sl.loc.userId)
           THEN usersCatch(sl, "User not found", "Failed to add user points")
         ELSE Await(sl, "add_upd",
                    [sl.loc EXCEPT !.newPoints = user.points + sl.loc.points]))
  /\ UNCHANGED <<store, env, hist>>

\* database.subtractUserPoints: const user = await this.getUserById(userId)
SubtractGet(s) ==
  /\ slot[s].pc = "subtract_get"
  /\ \E ok \in BOOLEAN :
       LET sl == Read(slot[s])
           user == getUserById(sl.loc.userId)
       IN
       Finish(s,
         IF ~ok THEN usersCatch(slot[s], StoreError, "Failed to subtract user points")
         ELSE IF ~UserExists(sl.loc.userId)
           THEN usersCatch(sl, "User not found", "Failed to subtract user points")
         ELSE Await(sl, "subtract_upd",
                    [sl.loc EXCEPT !.newPoints =
                       subtractedPoints(user.points, sl.loc.points)]))
  /\ UNCHANGED <<store, env, hist>>

PointsFailure(method) ==
  IF method = "users.updatePoints" THEN "Failed to update user points"
  ELSE IF method = "users.addPoints" THEN "Failed to add user points"
  ELSE "Failed to subtract user points"

RereadPc(method) ==
  IF method = "users.updatePoints" THEN "update_reread"
  ELSE IF method = "users.addPoints" THEN "add_reread"
  ELSE "subtract_reread"

\* database.updateUserPoints, awaited by users.updatePoints directly and by
\* addUserPoints and subtractUserPoints, up to the handler's next await.
PointsUpdate(s) ==
  /\ slot[s].pc \in {"update_upd", "add_upd", "subtract_upd"}
  /\ \E ok \in BOOLEAN :
       LET sl == Written(slot[s]) IN
       IF ok
         THEN /\ users' = updateUserPoints(sl.loc.userId, sl.loc.newPoints)
              /\ otherWriter' = TRUE
              /\ subtracted' = IF sl.req.method = "users.subtractPoints" /\ sl.loc.userId = 1
                                THEN subtracted + sl.loc.points ELSE subtracted
              /\ adjusted' =
                   IF sl.loc.userId # 1 THEN adjusted
                   ELSE IF sl.req.method = "users.addPoints"
                     THEN [adjusted EXCEPT !.added = @ + sl.loc.points]
                   ELSE IF sl.req.method = "users.updatePoints"
                     THEN [adjusted EXCEPT !.updated = TRUE]
                   ELSE adjusted
              /\ Finish(s, Await(sl, RereadPc(sl.req.method), sl.loc))
         ELSE /\ UNCHANGED <<users, otherWriter, subtracted, adjusted>>
              /\ Finish(s, usersCatch(slot[s], StoreError, PointsFailure(sl.req.method)))
  /\ UNCHANGED <<prompts, nextPromptId, config, env, initial, charged, reached,
                 signups>>

\* const updatedUser = await database.getUserById(userId), and the response
pointsResponse(s, message, returned) ==
  \E ok \in BOOLEAN :
    LET sl == Read(slot[s])
        userId == sl.loc.userId
    IN
    Finish(s,
      IF ~ok THEN usersCatch(slot[s], StoreError, PointsFailure(sl.req.method))
      ELSE Respond(sl, sendSuccess(
             [tag |-> "points", message |-> message,
              user |-> WithoutPassword(userId, getUserById(userId)),
              newPoints |-> returned], sl.req.id)))

UpdateReread(s) ==
  /\ slot[s].pc = "update_reread"
  /\ pointsResponse(s, "User points updated successfully", NotNum)
  /\ UNCHANGED <<store, env, hist>>

AddReread(s) ==
  /\ slot[s].pc = "add_reread"
  /\ pointsResponse(s, "Added points successfully", slot[s].loc.newPoints)
  /\ UNCHANGED <<store, env, hist>>

SubtractReread(s) ==
  /\ slot[s].pc = "subtract_reread"
  /\ pointsResponse(s, "Subtracted points successfully", slot[s].loc.newPoints)
  /\ UNCHANGED <<store, env, hist>>

(***************************************************************************)
(* routes/me.ts: user.profile (behind authenticateToken)                   *)
(***************************************************************************)
meHandler(sl) ==
  IF sl.req.method # "user.profile"
    THEN Respond(sl, sendError(METHOD_NOT_FOUND, "Method '<method>' not found", sl.req.id, NoData))
  ELSE IF sl.user = NoUser
    THEN Respond(sl, sendError(AUTHENTICATION_ERROR, "Authentication required",
                               sl.req.id, NoData))
  ELSE Await(sl, "me_getUser", NoLoc)

\* const user = await database.getUserById(req.user.userId)
MeGetUser(s) ==
  /\ slot[s].pc = "me_getUser"
  /\ \E ok \in BOOLEAN :
       LET sl == Read(slot[s])
           userId == sl.user.userId
       IN
       Finish(s,
         IF ~ok THEN Respond(Caught(slot[s], StoreError), sendError(INTERNAL_ERROR,
                       "Failed to retrieve user profile", OrNull(sl.req.id),
                       StrData(StoreError)))
         ELSE IF ~UserExists(userId) THEN UserNotFound(sl)
         ELSE Respond(sl, sendSuccess(WithoutPassword(userId, getUserById(userId)),
                                      sl.req.id)))
  /\ UNCHANGED <<store, env, hist>>

(***************************************************************************)
(* routes/config.ts: config.get, config.update (behind authenticateAdmin)  *)
(***************************************************************************)
ConfigKeys == <<"baseUrl", "apiKey", "model">>

\* const updates: any = {}; if (baseUrl) updates.baseUrl = baseUrl; ...
RECURSIVE updatesOf(_, _)
updatesOf(params, keys) ==
  IF keys = <<>> THEN <<>>
  ELSE IF Falsy(params[Head(keys)]) THEN updatesOf(params, Tail(keys))
  ELSE <<[key |-> Head(keys), value |-> params[Head(keys)]]>>
         \o updatesOf(params, Tail(keys))

\* The handler up to its first await.
configHandler(sl, params) ==
  LET id == sl.req.id
      method == sl.req.method
  IN
  IF method = "config.get" THEN Await(sl, "config_get", NoLoc)
  ELSE IF method = "config.update" THEN
    IF ~params.defined
      THEN Respond(sl, sendError(INVALID_PARAMS,
                                 "Configuration parameters are required", id, NoData))
    ELSE IF updatesOf(params, ConfigKeys) = <<>>
      THEN Respond(sl, sendError(INVALID_PARAMS,
                                 "At least one configuration field is required",
                                 id, NoData))
    ELSE Await(sl, "config_set", [tag |-> "config",
                                  updates |-> updatesOf(params, ConfigKeys)])
  ELSE Respond(sl, sendError(METHOD_NOT_FOUND, "Method '<method>' not found", id, NoData))

configCatch(sl, failure) ==
  Respond(Caught(sl, StoreError), sendError(INTERNAL_ERROR, failure, sl.req.id, StrData(StoreError)))

\* config.get: const config = await database.getConfig()
ConfigGet(s) ==
  /\ slot[s].pc = "config_get"
  /\ \E ok \in BOOLEAN :
       LET sl == Read(slot[s]) IN
       Finish(s,
         IF ~ok THEN configCatch(slot[s], "Failed to retrieve configuration")
         ELSE Respond(sl, sendSuccess([tag |-> "config", config |-> config],
                                      sl.req.id)))
  /\ UNCHANGED <<store, env, hist>>

\* database.updateConfig: one INSERT OR REPLACE per entry, each awaited
ConfigSet(s) ==
  /\ slot[s].pc = "config_set"
  /\ \E ok \in BOOLEAN :
       LET sl == Written(slot[s])
           entry == Head(sl.loc.updates)
           rest == Tail(sl.loc.updates)
       IN
       IF ok
         THEN /\ config' = [config EXCEPT ![entry.key] = entry.value]
              /\ Finish(s, IF rest = <<>>
                             THEN Await(sl, "config_reread", NoLoc)
                             ELSE Await(sl, "config_set",
                                        [sl.loc EXCEPT !.updates = rest]))
         ELSE /\ UNCHANGED config
              /\ Finish(s, configCatch(slot[s], "Failed to update configuration"))
  /\ UNCHANGED <<users, prompts, nextPromptId, env, hist>>

\* config.update: const updatedConfig = await database.getConfig()
ConfigReread(s) ==
  /\ slot[s].pc = "config_reread"
  /\ \E ok \in BOOLEAN :
       LET sl == Read(slot[s]) IN
       Finish(s,
         IF ~ok THEN configCatch(slot[s], "Failed to update configuration")
         ELSE Respond(sl, sendSuccess([tag |-> "configUpdated", config |-> config],
                                      sl.req.id)))
  /\ UNCHANGED <<store, env, hist>>

(***************************************************************************)
(* routes/prompt_store.ts: prompts.list, prompts.get (public) and          *)
(* prompts.create, prompts.update, prompts.delete (authenticateAdmin       *)
(* called by the handler)                                                  *)
(***************************************************************************)
PromptReads == {"prompts.list", "prompts.get"}
PromptWrites == {"prompts.create", "prompts.update", "prompts.delete"}

PromptExists(id) == \E r \in prompts : r.id = id
getPromptById(id) == CHOOSE r \in prompts : r.id = id

PromptLoc(id, title) == [tag |-> "prompt", id |-> id, title |-> title]

\* handleReadOperations up to its first await
handleReadOperations(sl, params) ==
  LET id == sl.req.id IN
  IF sl.req.method = "prompts.list" THEN Await(sl, "prompts_list", NoLoc)
  ELSE IF ~params.defined \/ params.id = NotNum
    THEN Respond(sl, sendError(INVALID_PARAMS, "Prompt ID is required", id, NoData))
  ELSE Await(sl, "prompts_get", PromptLoc(params.id, Undefined))

\* handleWriteOperations up to its first await
handleWriteOperations(sl, params) ==
  LET id == sl.req.id
      method == sl.req.method
  IN
  IF method = "prompts.create" THEN
    IF ~params.defined
      THEN Respond(sl, sendError(INVALID_PARAMS, "Prompt data is required", id, NoData))
    ELSE IF Falsy(params.prompt) \/ Falsy(params.category) \/ Falsy(params.title)
      THEN Respond(sl, sendError(INVALID_PARAMS,
                                 "Prompt, category, and title are required", id, NoData))
    ELSE Await(sl, "prompts_insert", PromptLoc(NotNum, params.title))
  ELSE IF method = "prompts.update" THEN
    IF ~params.defined \/ params.id = NotNum
      THEN Respond(sl, sendError(INVALID_PARAMS,
                                 "Prompt ID and update data are required", id, NoData))
      ELSE Await(sl, "prompts_update_get", PromptLoc(params.id, params.title))
  ELSE
    IF ~params.defined \/ params.id = NotNum
      THEN Respond(sl, sendError(INVALID_PARAMS, "Prompt ID is required", id, NoData))
      ELSE Await(sl, "prompts_delete_get", PromptLoc(params.id, Undefined))

OpRan(sl) == [sl EXCEPT !.opRan = TRUE]
AuthRan(sl) == [sl EXCEPT !.authRan = TRUE]

\* the handler without its call of authenticateAdmin
promptsHandler_noAuth(sl, params, secret) ==
  LET method == sl.req.method IN
  IF method \in PromptReads THEN handleReadOperations(OpRan(sl), params)
  ELSE IF method \in PromptWrites THEN handleWriteOperations(OpRan(sl), params)
  ELSE Respond(sl, sendError(METHOD_NOT_FOUND, "Method '<method>' not found", sl.req.id, NoData))

\* The handler up to its first await: reads are served at once, writes go
\* through authenticateAdmin.
promptsHandler(sl, params, secret) ==
  LET method == sl.req.method
      auth == authenticateAdmin(sl.req.header, secret)
  IN
  IF method \in PromptReads THEN handleReadOperations(OpRan(sl), params)
  ELSE IF method \in PromptWrites THEN
    IF auth.next THEN handleWriteOperations(OpRan(AuthRan(sl)), params)
    ELSE Respond(AuthRan(sl), auth.resp)
  ELSE Respond(sl, sendError(METHOD_NOT_FOUND, "Method '<method>' not found", sl.req.id, NoData))

promptsCatch(sl, failure) ==
  Respond(Caught(sl, StoreError), sendError(INTERNAL_ERROR, failure, sl.req.id, StrData(StoreError)))

PromptNotFound(sl) ==
  Respond(sl, sendError(NOT_FOUND, "Prompt not found", sl.req.id, NoData))

\* prompts.list: const prompts = await database.getAllPrompts()
PromptsList(s) ==
  /\ slot[s].pc = "prompts_list"
  /\ \E ok \in BOOLEAN :
       LET sl == Read(slot[s]) IN
       Finish(s,
         IF ~ok THEN promptsCatch(slot[s], "Failed to retrieve prompts")
         ELSE Respond(sl, sendSuccess([tag |-> "prompts", rows |-> prompts],
                                      sl.req.id)))
  /\ UNCHANGED <<store, env, hist>>

\* prompts.get: const prompt = await database.getPromptById(params.id)
PromptsGet(s) ==
  /\ slot[s].pc = "prompts_get"
  /\ \E ok \in BOOLEAN :
       LET sl == Read(slot[s]) IN
       Finish(s,
         IF ~ok THEN promptsCatch(slot[s], "Failed to retrieve prompt")
         ELSE IF ~PromptExists(sl.loc.id) THEN PromptNotFound(sl)
         ELSE Respond(sl, sendSuccess([tag |-> "prompt",
                                       prompt |-> getPromptById(sl.loc.id)],
                                      sl.req.id)))
  /\ UNCHANGED <<store, env, hist>>

\* prompts.create: const promptId = await database.createPrompt({...})
PromptsInsert(s) ==
  /\ slot[s].pc = "prompts_insert"
  /\ \E ok \in BOOLEAN :
       LET sl == Written(slot[s]) IN
       IF ok
         THEN /\ prompts' = prompts \cup {[id |-> nextPromptId, title |-> sl.loc.title]}
              /\ nextPromptId' = nextPromptId + 1
              /\ Finish(s, Await(sl, "prompts_reread",
                                 [sl.loc EXCEPT !.id = nextPromptId]))
         ELSE /\ UNCHANGED <<prompts, nextPromptId>>
              /\ Finish(s, promptsCatch(slot[s], "Failed to create prompt"))
  /\ UNCHANGED <<users, config, env, hist>>

PromptFailure(method) ==
  IF method = "prompts.create" THEN "Failed to create prompt"
  ELSE "Failed to update prompt"

\* prompts.create: const newPrompt = await database.getPromptById(promptId);
\* prompts.update: const updatedPrompt = await database.getPromptById(promptId)
PromptsReread(s) ==
  /\ slot[s].pc = "prompts_reread"
  /\ \E ok \in BOOLEAN :
       LET sl == Read(slot[s])
           found == IF PromptExists(sl.loc.id)
                      THEN getPromptById(sl.loc.id)
                      ELSE [id |-> NotNum, title |-> Null]
       IN
       Finish(s,
         IF ~ok THEN promptsCatch(slot[s], PromptFailure(sl.req.method))
         ELSE Respond(sl, sendSuccess([tag |-> "promptSaved", prompt |-> found],
                                      sl.req.id)))
  /\ UNCHANGED <<store, env, hist>>

\* prompts.update: const existingPrompt = await database.getPromptById(promptId),
\* and database.updatePrompt up to its await (it runs no statement when the
\* update data are empty).
PromptsUpdateGet(s) ==
  /\ slot[s].pc = "prompts_update_get"
  /\ \E ok \in BOOLEAN :
       LET sl == Read(slot[s]) IN
       Finish(s,
         IF ~ok THEN promptsCatch(slot[s], "Failed to update prompt")
         ELSE IF ~PromptExists(sl.loc.id) THEN PromptNotFound(sl)
         ELSE IF sl.loc.title = Undefined THEN Await(sl, "prompts_reread", sl.loc)
         ELSE Await(sl, "prompts_update", sl.loc))
  /\ UNCHANGED <<store, env, hist>>

\* database.updatePrompt: UPDATE prompt_store SET ... WHERE id = ?
PromptsUpdate(s) ==
  /\ slot[s].pc = "prompts_update"
  /\ \E ok \in BOOLEAN :
       LET sl == Written(slot[s]) IN
       IF ok
         THEN /\ prompts' = {IF r.id = sl.loc.id
                               THEN [r EXCEPT !.title = sl.loc.title] ELSE r
                             : r \in prompts}
              /\ Finish(s, Await(sl, "prompts_reread", sl.loc))
         ELSE /\ UNCHANGED prompts
              /\ Finish(s, promptsCatch(slot[s], "Failed to update prompt"))
  /\ UNCHANGED <<users, nextPromptId, config, env, hist>>

\* prompts.delete: const existingPrompt = await database.getPromptById(params.id)
PromptsDeleteGet(s) ==
  /\ slot[s].pc = "prompts_delete_get"
  /\ \E ok \in BOOLEAN :
       LET sl == Read(slot[s]) IN
       Finish(s,
         IF ~ok THEN promptsCatch(slot[s], "Failed to delete prompt")
         ELSE IF ~PromptExists(sl.loc.id) THEN PromptNotFound(sl)
         ELSE Await(sl, "prompts_delete", sl.loc))
  /\ UNCHANGED <<store, env, hist>>

\* database.deletePrompt: DELETE FROM prompt_store WHERE id = ?
PromptsDelete(s) ==
  /\ slot[s].pc = "prompts_delete"
  /\ \E ok \in BOOLEAN :
       LET sl == Written(slot[s]) IN
       IF ok
         THEN /\ prompts' = {r \in prompts : r.id # sl.loc.id}
              /\ Finish(s, Respond(sl, sendSuccess([tag |-> "promptDeleted"],
                                                   sl.req.id)))
         ELSE /\ UNCHANGED prompts
              /\ Finish(s, promptsCatch(slot[s], "Failed to delete prompt"))
  /\ UNCHANGED <<users, nextPromptId, config, env, hist>>

(***************************************************************************)
(* routes/signup.ts: auth.signup                                           *)
(***************************************************************************)
\* username.length, password.length of the strings the model sends
StrLen(str) ==
  CASE str = "ab" -> 2
    [] str = "alice" -> 5
    [] str = "bob" -> 3
    [] str = "short" -> 5
    [] str = "secret1" -> 7
    [] str = "secret2" -> 7
    [] OTHER -> 0

AuthLoc(username, password) ==
  [tag |-> "auth", username |-> username, password |-> password, userId |-> 0]

\* The handler up to its first await.
signupHandler(sl, params) ==
  LET id == sl.req.id IN
  IF sl.req.method # "auth.signup"
    THEN Respond(sl, sendError(METHOD_NOT_FOUND, "Method '<method>' not found", id, NoData))
  ELSE IF ~params.defined
    THEN Respond(sl, sendError(INVALID_PARAMS, "Registration parameters are required",
                               id, NoData))
  ELSE IF Falsy(params.username) \/ Falsy(params.password)
    THEN Respond(sl, sendError(INVALID_PARAMS, "Username and password are required",
                               id, NoData))
  ELSE IF StrLen(params.username) < 3 \/ StrLen(params.username) > 50
    THEN Respond(sl, sendError(VALIDATION_ERROR,
                               "Username must be between 3 and 50 characters",
                               id, NoData))
  ELSE IF StrLen(params.password) < 6
    THEN Respond(sl, sendError(VALIDATION_ERROR,
                               "Password must be at least 6 characters long",
                               id, NoData))
  ELSE Await(sl, "signup_lookup", AuthLoc(params.username, params.password))

\* The catch block of the handler.
signupCatch(sl, message) ==
  Respond(Caught(sl, message),
          sendError(INTERNAL_ERROR, "Failed to create user account",
                    OrNull(sl.req.id), StrData(message)))

\* database.getUserByUsername: the id of the row, 0 when there is none
IdOfUsername(username) ==
  IF \E i \in 1..Len(users) : users[i].username = username
    THEN CHOOSE i \in 1..Len(users) : users[i].username = username
    ELSE 0

\* a users table whose column username is not UNIQUE
UniqueUsername_unchecked(username) == TRUE

\* username TEXT UNIQUE NOT NULL: the INSERT of a second row with the
\* username fails
UniqueUsername(username) == IdOfUsername(username) = 0

\* const existingUser = await database.getUserByUsername(username)
SignupLookup(s) ==
  /\ slot[s].pc = "signup_lookup"
  /\ \E ok \in BOOLEAN :
       LET sl == Read(slot[s]) IN
       Finish(s,
         IF ~ok THEN signupCatch(slot[s], StoreError)
         ELSE IF IdOfUsername(sl.loc.username) # 0
           THEN Respond(sl, sendError(VALIDATION_ERROR, "Username already exists",
                                      sl.req.id, [tag |-> "conflict", conflict |-> TRUE]))
         ELSE Await(sl, "signup_hash", sl.loc))
  /\ UNCHANGED <<store, env, hist>>

\* const hashedPassword = await AuthService.hashPassword(password)
SignupHash(s) ==
  /\ slot[s].pc = "signup_hash"
  /\ Finish(s, Await(slot[s], "signup_insert", slot[s].loc))
  /\ UNCHANGED <<store, env, hist>>

\* database.createUser: INSERT INTO users (username, password, nickname); the
\* column username is UNIQUE and points defaults to 100.
SignupInsert(s) ==
  /\ slot[s].pc = "signup_insert"
  /\ \E ok \in BOOLEAN :
       LET sl == Written(slot[s]) IN
       IF ok /\ UniqueUsername(sl.loc.username)
         THEN /\ users' = Append(users, UserRow(sl.loc.username,
                                                hashPassword(sl.loc.password),
                                                DefaultPoints, Null))
              /\ Finish(s, Await(sl, "signup_fetch",
                                 [sl.loc EXCEPT !.userId = Len(users) + 1]))
         ELSE /\ UNCHANGED users
              /\ Finish(s, signupCatch(slot[s],
                             IF ok THEN "SQLITE_CONSTRAINT" ELSE StoreError))
  /\ UNCHANGED <<prompts, nextPromptId, config, env, hist>>

\* const createdUser = await database.getUserById(userId), the token and the
\* response
SignupFetch(s) ==
  /\ slot[s].pc = "signup_fetch"
  /\ \E ok \in BOOLEAN :
       LET sl == Read(slot[s])
           userId == sl.loc.userId
       IN
       /\ Finish(s,
            IF ~ok THEN signupCatch(slot[s], StoreError)
            ELSE IF ~UserExists(userId)
              THEN Respond(sl, sendError(INTERNAL_ERROR, "Failed to retrieve created user",
                                         sl.req.id, NoData))
            ELSE Respond(sl, sendSuccess(
                   [tag |-> "signup",
                    user |-> WithoutPassword(userId, getUserById(userId)),
                    access_token |-> generateToken(
                      [userId |-> userId, username |-> sl.loc.username], now)],
                   sl.req.id)))
       /\ signups' = IF ok /\ UserExists(userId)
                       THEN Append(signups, sl.loc.username) ELSE signups
  /\ UNCHANGED <<store, env, initial, charged, otherWriter, subtracted, reached,
                 adjusted>>

(***************************************************************************)
(* routes/login.ts: auth.login                                             *)
(***************************************************************************)
\* The handler up to its first await.
loginHandler(sl, params) ==
  LET id == sl.req.id IN
  IF sl.req.method # "auth.login"
    THEN Respond(sl, sendError(METHOD_NOT_FOUND, "Method '<method>' not found", id, NoData))
  ELSE IF ~params.defined
    THEN Respond(sl, sendError(INVALID_PARAMS, "Login parameters are required",
                               id, NoData))
  ELSE IF ~Falsy(params.grant_type) /\ params.grant_type # "password"
    THEN Respond(sl, sendError(INVALID_PARAMS, "Only password grant type is supported",
                               id, [tag |-> "oauth", error |-> "unsupported_grant_type"]))
  ELSE IF Falsy(params.username) \/ Falsy(params.password)
    THEN Respond(sl, sendError(INVALID_PARAMS, "Username and password are required",
                               id, [tag |-> "oauth", error |-> "invalid_request"]))
  ELSE Await(sl, "login_lookup", AuthLoc(params.username, params.password))

loginCatch(sl, message) ==
  Respond(Caught(sl, message),
          sendError(INTERNAL_ERROR, "Internal server error during authentication",
                    OrNull(sl.req.id),
                    [tag |-> "oauth", error |-> "server_error",
                     details |-> message]))

InvalidGrant(sl) ==
  Respond(sl, sendError(AUTHENTICATION_ERROR, "Invalid username or password",
                        sl.req.id, [tag |-> "oauth", error |-> "invalid_grant"]))

\* const user = await database.getUserByUsername(username)
LoginLookup(s) ==
  /\ slot[s].pc = "login_lookup"
  /\ \E ok \in BOOLEAN :
       LET sl == Read(slot[s])
           userId == IdOfUsername(sl.loc.username)
       IN
       Finish(s,
         IF ~ok THEN loginCatch(slot[s], StoreError)
         ELSE IF userId = 0 THEN InvalidGrant(sl)
         ELSE Await(sl, "login_compare",
                    [sl.loc EXCEPT !.userId = userId]
                      @@ [hash |-> users[userId].password]))
  /\ UNCHANGED <<store, env, hist>>

\* const isValidPassword = await AuthService.comparePassword(password,
\* user.password), the token and the response
LoginCompare(s) ==
  /\ slot[s].pc = "login_compare"
  /\ LET sl == slot[s] IN
     Finish(s,
       IF bcryptRejects(sl.loc.password) THEN loginCatch(sl, "Illegal arguments")
       ELSE IF ~comparePassword(sl.loc.password, sl.loc.hash) THEN InvalidGrant(sl)
       ELSE Respond(sl, sendSuccess(
              [tag |-> "login",
               access_token |-> generateToken(
                 [userId |-> sl.loc.userId, username |-> sl.loc.username], now)],
              sl.req.id)))
  /\ UNCHANGED <<store, env, hist>>

(***************************************************************************)
(* routes/wechat-login.ts: auth.wechat_login                               *)
(***************************************************************************)
WechatLoc(platform) ==
  [tag |-> "wechat", platform |-> platform, errcode |-> Undefined,
   openid |-> Undefined, access_token |-> FALSE, userId |-> 0]

\* The handler up to its first await.
wechatHandler(sl, params, configured) ==
  LET id == sl.req.id IN
  IF sl.req.method # "auth.wechat_login"
    THEN Respond(sl, sendError(METHOD_NOT_FOUND, "Method '<method>' not found", id, NoData))
  ELSE IF ~params.defined
    THEN Respond(sl, sendError(INVALID_PARAMS, "WeChat login parameters are required",
                               id, NoData))
  ELSE IF Falsy(params.code)
    THEN Respond(sl, sendError(INVALID_PARAMS, "WeChat authorization code is required",
                               id, NoData))
  ELSE IF ~configured
    THEN Respond(sl, sendError(INTERNAL_ERROR, "WeChat service not configured",
                               id, NoData))
  ELSE Await(sl, "wechat_exchange",
             WechatLoc(IF Falsy(params.platform) THEN "miniprogram"
                       ELSE params.platform))

wechatCatch(sl, message) ==
  Respond(Caught(sl, message),
          sendError(INTERNAL_ERROR,
                    "Internal server error during WeChat authentication",
                    OrNull(sl.req.id),
                    [tag |-> "oauth", error |-> "server_error",
                     details |-> message]))

WechatOpenids == {"openid-1"}

\* The errcode member of the provider's answer: absent, 0 or a failure code.
WechatErrcodes == {Undefined, Num0, "<40029>"}

\* a check that never takes the errcode branch
errcodeRejects_never(errcode) == FALSE

\* if (authResponse.errcode)
errcodeRejects(errcode) == ~Falsy(errcode)

\* authResponse = await wechatService.getMiniProgramSession(code) or
\* getAccessToken(code), and the checks of the answer
WechatExchange(s) ==
  /\ slot[s].pc = "wechat_exchange"
  /\ \E answer \in {"throws", "no openid"} \cup WechatOpenids,
        errcode \in WechatErrcodes, token \in BOOLEAN :
       LET called == Called(slot[s])
           sl == IF answer = "throws" THEN called
                 ELSE [called EXCEPT !.loc.errcode = errcode]
       IN
       Finish(s,
         IF answer = "throws"
           THEN Respond(sl, sendError(INTERNAL_ERROR, "WeChat API error",
                                      sl.req.id, NoData))
         ELSE IF errcodeRejects(errcode)
           THEN Respond(sl, sendError(AUTHENTICATION_ERROR,
                          "WeChat authentication failed", sl.req.id,
                          [tag |-> "wechat", error |-> "wechat_auth_failed",
                           wechat_error_code |-> errcode,
                           wechat_error_msg |-> "invalid code"]))
         ELSE IF answer = "no openid"
           THEN Respond(sl, sendError(AUTHENTICATION_ERROR,
                          "WeChat openid not received", sl.req.id,
                          [tag |-> "oauth", error |-> "invalid_wechat_response"]))
         ELSE Await(sl, "wechat_lookup",
                    [sl.loc EXCEPT !.openid = answer, !.access_token = token]))
  /\ UNCHANGED <<store, env, hist>>

\* database.getUserByWeChatOpenid: the id of the row, 0 when there is none
IdOfOpenid(openid) ==
  IF \E i \in 1..Len(users) : users[i].wechat_openid = openid
    THEN CHOOSE i \in 1..Len(users) : users[i].wechat_openid = openid
    ELSE 0

wechatSuccess(sl, userId, isNewUser) ==
  Respond(sl, sendSuccess(
    [tag |-> "wechat",
     user |-> WithoutPassword(userId, getUserById(userId)),
     access_token |-> generateToken(
       [userId |-> userId, username |-> getUserById(userId).username], now),
     is_new_user |-> isNewUser],
    sl.req.id))

\* let user = await database.getUserByWeChatOpenid(authResponse.openid)
WechatLookup(s) ==
  /\ slot[s].pc = "wechat_lookup"
  /\ \E ok \in BOOLEAN :
       LET sl == Read(slot[s])
           userId == IdOfOpenid(sl.loc.openid)
       IN
       Finish(s,
         IF ~ok THEN wechatCatch(slot[s], StoreError)
         ELSE IF userId # 0 THEN wechatSuccess(sl, userId, FALSE)
         ELSE IF sl.loc.access_token THEN Await(sl, "wechat_userinfo", sl.loc)
         ELSE Await(sl, "wechat_insert", sl.loc))
  /\ UNCHANGED <<store, env, hist>>

\* const detailedUserInfo = await wechatService.getUserInfo(...): a failure
\* is ignored
WechatUserInfo(s) ==
  /\ slot[s].pc = "wechat_userinfo"
  /\ Finish(s, Await(Called(slot[s]), "wechat_insert", slot[s].loc))
  /\ UNCHANGED <<store, env, hist>>

\* database.createWeChatUser: INSERT INTO users (...); the column
\* wechat_openid is UNIQUE
WechatInsert(s) ==
  /\ slot[s].pc = "wechat_insert"
  /\ \E ok \in BOOLEAN :
       LET sl == Written(slot[s]) IN
       IF ok /\ IdOfOpenid(sl.loc.openid) = 0
         THEN /\ users' = Append(users, UserRow("wechat_user",
                                                <<"plain", "wechat_auth">>,
                                                DefaultPoints, sl.loc.openid))
              /\ Finish(s, Await(sl, "wechat_fetch",
                                 [sl.loc EXCEPT !.userId = Len(users) + 1]))
         ELSE /\ UNCHANGED users
              /\ Finish(s, wechatCatch(slot[s], StoreError))
  /\ UNCHANGED <<prompts, nextPromptId, config, env, hist>>

\* user = await database.getUserById(userId), the token and the response
WechatFetch(s) ==
  /\ slot[s].pc = "wechat_fetch"
  /\ \E ok \in BOOLEAN :
       LET sl == Read(slot[s]) IN
       Finish(s,
         IF ~ok THEN wechatCatch(slot[s], StoreError)
         ELSE IF ~UserExists(sl.loc.userId)
           THEN Respond(sl, sendError(INTERNAL_ERROR, "Failed to create WeChat user",
                                      sl.req.id, NoData))
         ELSE wechatSuccess(sl, sl.loc.userId, TRUE))
  /\ UNCHANGED <<store, env, hist>>

(***************************************************************************)
(* index.ts and the routers: app.use('/api/<route>', router), where every  *)
(* router is router.use(jsonRpcMiddleware); router.post('/', [auth,]       *)
(* handler).                                                               *)
(***************************************************************************)
Routes == {"login", "signup", "wechat-login", "me", "config", "prompt_store",
           "users", "images"}

TokenRoutes == {"me", "images"}      \* router.post('/', authenticateToken, ...)
AdminRoutes == {"config", "users"}   \* router.post('/', authenticateAdmin, ...)

InvalidEnvelope(sl, message) ==
  Respond(sl, sendError(INVALID_REQUEST, "Invalid JSON-RPC request format", Null,
                        StrData(message)))

\* a router whose auth middleware is mounted before jsonRpcMiddleware
pipeline_authFirst(sl, message, auth, inner) ==
  IF ~auth.next THEN Respond(AuthRan(sl), auth.resp)
  ELSE IF message # "" THEN InvalidEnvelope(AuthRan(sl), message)
  ELSE inner

\* jsonRpcMiddleware, then the auth middleware of the route, then the handler:
\* `message` is what parseRequest threw, `auth` the outcome of the middleware,
\* `inner` the outcome of the handler.
pipeline(sl, message, auth, inner) ==
  IF message # "" THEN InvalidEnvelope(sl, message)
  ELSE IF ~auth.next THEN Respond(AuthRan(sl), auth.resp)
  ELSE inner

NoMiddleware == NextWith(NoUser)

Entered(sl) == [sl EXCEPT !.handlerRan = TRUE]

\* A request from its arrival to its first await or its response.
dispatch(req, params) ==
  LET sl == [IdleSlot EXCEPT !.pc = "start", !.req = req]
      message == parseRequest(req)
      auth == IF req.route \in TokenRoutes THEN authenticateToken(req.header, now)
              ELSE IF req.route \in AdminRoutes
                THEN authenticateAdmin(req.header, adminPassword)
              ELSE NoMiddleware
      public == Entered(sl)
      guarded == [Entered(AuthRan(sl)) EXCEPT !.user = auth.user]
  IN
  pipeline(sl, message, auth,
    CASE req.route = "login" -> loginHandler(public, params)
      [] req.route = "signup" -> signupHandler(public, params)
      [] req.route = "wechat-login" ->
           wechatHandler(public, params, wechatConfigured)
      [] req.route = "prompt_store" -> promptsHandler(public, params, adminPassword)
      [] req.route = "me" -> meHandler(guarded)
      [] req.route = "images" -> imagesHandler(guarded, params)
      [] req.route = "config" -> configHandler(guarded, params)
      [] req.route = "users" -> usersHandler(guarded, params))

Arrive(s, req, params) ==
  /\ out = NoOut
  /\ slot[s].pc = "idle"
  /\ arrivals' = arrivals + 1
  /\ Finish(s, dispatch(req, params))
  /\ UNCHANGED <<store, adminPassword, wechatConfigured, now, hits, hist>>

\* The client receives the response.
Deliver ==
  /\ out # NoOut
  /\ out' = NoOut
  /\ UNCHANGED <<store, env, slot, hist>>

(***************************************************************************)
(* The requests a client sends                                             *)
(***************************************************************************)
AdminSecret == "admin-secret"

Alice == [userId |-> 1, username |-> "alice"]
Bob == [userId |-> 2, username |-> "bob"]

TokAlice == generateToken(Alice, 0)
TokBob == generateToken(Bob, 0)
TokBadKey == jwtSign(Alice, "other-key", ISSUER, AUDIENCE, 0)
TokBadIssuer == jwtSign(Alice, JWT_SECRET, "other-issuer", AUDIENCE, 0)
TokBadAudience == jwtSign(Alice, JWT_SECRET, ISSUER, "other-audience", 0)
TokExpired == generateToken(Alice, 0 - ExpiresInHours)

Bearer(word) == <<Word("Bearer"), word>>

Headers ==
  {<<>>, <<Word(AdminSecret)>>, Bearer(Word("")),
   Bearer(Word(AdminSecret)), Bearer(Word("wrong-secret")),
   Bearer(TokAlice), Bearer(TokBob), Bearer(TokBadKey), Bearer(TokBadIssuer),
   Bearer(TokBadAudience), Bearer(TokExpired)}

FewHeaders == {<<>>, Bearer(Word(AdminSecret)), Bearer(TokAlice)}

HeadersOf(route) ==
  IF route \in {"login", "signup", "wechat-login"} THEN FewHeaders ELSE Headers

Ids == {Undefined, Num0, Num7}

MethodsOf(route) ==
  CASE route = "login" -> {"auth.login"}
    [] route = "signup" -> {"auth.signup"}
    [] route = "wechat-login" -> {"auth.wechat_login"}
    [] route = "me" -> {"user.profile"}
    [] route = "config" -> {"config.get", "config.update"}
    [] route = "prompt_store" -> PromptReads \cup PromptWrites
    [] route = "users" -> {"users.list", "users.get", "users.updatePoints",
                           "users.addPoints", "users.subtractPoints"}
    [] route = "images" -> {"images.generate"}

\* <<jsonrpc, method>> of the envelopes sent to a route: the well-formed ones
\* and the malformed ones.
AnyMethodOf(route) == CHOOSE m \in MethodsOf(route) : TRUE

Envelopes(route) ==
  ({"2.0"} \X (MethodsOf(route) \cup {"unknown.method", "", Undefined, Num7}))
    \cup ({"1.0", Undefined} \X {AnyMethodOf(route), Undefined})

TextPart == Part("hi", "none")
ImageParams(platform, prompt) ==
  [defined |-> TRUE, platform |-> platform, prompt |-> prompt]
PointsParams(userId, points) ==
  [defined |-> TRUE, id |-> userId, userId |-> userId, points |-> points]
ConfigParams(apiKey, model) ==
  [defined |-> TRUE, baseUrl |-> Undefined, apiKey |-> apiKey, model |-> model]
PromptParams(id, title) ==
  [defined |-> TRUE, id |-> id, title |-> title, prompt |-> "p", category |-> "c"]
AuthParams(username, password, grant) ==
  [defined |-> TRUE, username |-> username, password |-> password,
   grant_type |-> grant]
WechatParams(code, platform) ==
  [defined |-> TRUE, code |-> code, platform |-> platform]

ParamsOf(method) ==
  CASE method = "images.generate" ->
         {NoParams}
         \cup {ImageParams(p, PromptOf(<<TextPart>>))
               : p \in {Undefined, "gemini", "openai", "dalle"}}
         \cup {ImageParams("gemini", q)
               : q \in {NoPrompt,
                        [defined |-> TRUE, isArray |-> FALSE, parts |-> <<>>],
                        PromptOf(<<Part("  ", "ok")>>),
                        PromptOf(<<TextPart, Part(Undefined, "none")>>),
                        PromptOf(<<TextPart, Part(Undefined, "noMime")>>),
                        PromptOf(<<TextPart, Part(Undefined, "ok")>>)}}
    [] method \in {"users.updatePoints", "users.addPoints", "users.subtractPoints"} ->
         {NoParams, PointsParams(NotNum, 1), PointsParams(1, NotNum),
          PointsParams(1, -1), PointsParams(1, 0), PointsParams(1, 1),
          PointsParams(1, 2), PointsParams(2, 1)}
    [] method = "users.get" ->
         {NoParams, PointsParams(NotNum, 0), PointsParams(1, 0), PointsParams(2, 0)}
    [] method = "config.update" ->
         {NoParams, ConfigParams(Undefined, Undefined),
          ConfigParams(Undefined, "custom"), ConfigParams("custom", "custom")}
    [] method = "prompts.create" ->
         {NoParams, PromptParams(NotNum, Undefined), PromptParams(NotNum, "t2")}
    [] method = "prompts.update" ->
         {NoParams, PromptParams(NotNum, "t2"), PromptParams(1, Undefined),
          PromptParams(1, "t2"), PromptParams(2, "t2")}
    [] method \in {"prompts.get", "prompts.delete"} ->
         {NoParams, PromptParams(NotNum, Undefined), PromptParams(1, Undefined),
          PromptParams(2, Undefined)}
    [] method = "auth.signup" ->
         {NoParams, AuthParams(Undefined, "secret1", Undefined),
          AuthParams("ab", "secret1", Undefined),
          AuthParams("alice", "secret2", Undefined),
          AuthParams("bob", "short", Undefined),
          AuthParams("bob", "secret2", Undefined)}
    [] method = "auth.login" ->
         {NoParams, AuthParams("alice", "secret1", "client_credentials"),
          AuthParams("alice", Undefined, Undefined),
          AuthParams("alice", "secret1", "password"),
          AuthParams("alice", "secret2", Undefined),
          AuthParams("bob", "secret1", Undefined),
          AuthParams("alice", Num7, Undefined),
          AuthParams("bob", Num7, Undefined)}
    [] method = "auth.wechat_login" ->
         {NoParams, WechatParams(Undefined, Undefined),
          WechatParams("code", Undefined), WechatParams("code", "web")}
    [] OTHER -> {NoParams}

\* The parameters and the credential with which a method is served.
GoodParams(method) ==
  CASE method = "images.generate" -> ImageParams("gemini", PromptOf(<<TextPart>>))
    [] method \in {"users.updatePoints", "users.addPoints", "users.subtractPoints"} ->
         PointsParams(1, 1)
    [] method = "users.get" -> PointsParams(1, 0)
    [] method = "config.update" -> ConfigParams(Undefined, "custom")
    [] method = "prompts.create" -> PromptParams(NotNum, "t2")
    [] method = "prompts.update" -> PromptParams(1, "t2")
    [] method \in {"prompts.get", "prompts.delete"} -> PromptParams(1, Undefined)
    [] method = "auth.signup" -> AuthParams("bob", "secret2", Undefined)
    [] method = "auth.login" -> AuthParams("alice", "secret1", "password")
    [] method = "auth.wechat_login" -> WechatParams("code", "web")
    [] OTHER -> NoParams

GoodHeaders(route) ==
  IF route \in TokenRoutes THEN {Bearer(TokAlice), Bearer(TokBob)}
  ELSE IF route \in AdminRoutes \cup {"prompt_store"} THEN {Bearer(Word(AdminSecret))}
  ELSE {<<>>}

Request(route, envelope, id, header) ==
  [route |-> route, jsonrpc |-> envelope[1], method |-> envelope[2], id |-> id,
   header |-> header]

\* A client sends any envelope with any id and any Authorization header, while
\* no other request is in flight.
ArriveEnvelope ==
  /\ arrivals < MaxArrivals
  /\ \A s \in Slots : slot[s].pc = "idle"
  /\ \E route \in Routes :
       \E envelope \in Envelopes(route), id \in Ids, header \in HeadersOf(route) :
         Arrive(1, Request(route, envelope, id, header), GoodParams(envelope[2]))

\* A client sends a method with any params, while no other request is in
\* flight.
ArriveParams ==
  /\ arrivals < MaxArrivals
  /\ \A s \in Slots : slot[s].pc = "idle"
  /\ \E route \in Routes :
       \E method \in MethodsOf(route), header \in GoodHeaders(route) :
         \E params \in ParamsOf(method) :
           Arrive(1, Request(route, <<"2.0", method>>, Num7, header), params)

\* Clients send well-formed, authorized balance requests concurrently.
BalanceRequests ==
  {<<"images", "images.generate", Bearer(TokAlice),
     ImageParams(p, PromptOf(<<TextPart>>))>> : p \in SupportedPlatforms}
  \cup {<<"users", m, Bearer(Word(AdminSecret)), PointsParams(1, p)>>
        : m \in {"users.updatePoints", "users.addPoints", "users.subtractPoints"},
          p \in {-1, 1, 2}}
  \cup {<<"signup", "auth.signup", <<>>, AuthParams("bob", "secret2", Undefined)>>}

ArriveBalance ==
  \E s \in Slots, r \in BalanceRequests :
    arrivals < MaxConcurrent /\
    Arrive(s, [route |-> r[1], jsonrpc |-> "2.0", method |-> r[2], id |-> Num7,
               header |-> r[3]], r[4])

(***************************************************************************)
(* index.ts: limiter (app.use, before the body is parsed) and authLimiter   *)
(* (on /api/login, /api/wechat-login and /api/signup), express-rate-limit   *)
(* with its memory store, for the requests of one IP                        *)
(***************************************************************************)
LimiterMax == 100        \* max: 100, per windowMs of 15 minutes
AuthLimiterMax == 15     \* max: 15, per windowMs of 10 minutes

AuthLimited == {"login", "wechat-login", "signup"}

\* a limiter that lets one request more through
Exceeds_lateByOne(totalHits, max) == totalHits > max + 1

\* express-rate-limit calls options.handler instead of next() when the hits
\* of the key in the current window, this request included, are more than max
Exceeds(totalHits, max) == totalHits > max

\* handler of limiter: req.body is not parsed yet, req.body?.id || null is null
limiterHandler(req) ==
  sendError(RATE_LIMIT_EXCEEDED,
            "Too many requests from this IP, please try again later.", Null, NoData)

\* handler of authLimiter
authLimiterHandler(req) ==
  sendError(RATE_LIMIT_EXCEEDED,
            "Too many authentication attempts, please try again later.",
            OrNull(req.id), NoData)

\* The limiters answer the request: no router sees it.
Limited(req, resp) ==
  /\ out' = OutOf([IdleSlot EXCEPT !.req = req], resp)
  /\ UNCHANGED slot

LimitedRequests ==
  {<<"login", "auth.login", <<>>, AuthParams("alice", "secret1", Undefined)>>,
   <<"me", "user.profile", Bearer(TokAlice), NoParams>>}

\* A request of the client arrives while no other is in flight: limiter, then
\* for the three auth routes authLimiter, then the router.
ArriveLimited ==
  /\ out = NoOut
  /\ \A s \in Slots : slot[s].pc = "idle"
  /\ hits.limiter <= LimiterMax
  /\ \E r \in LimitedRequests, id \in {Num0, Num7} :
       LET req == Request(r[1], <<"2.0", r[2]>>, id, r[3])
           total == hits.limiter + 1
           authTotal == hits.authLimiter + 1
       IN
       IF Exceeds(total, LimiterMax)
         THEN /\ hits' = [hits EXCEPT !.limiter = total]
              /\ Limited(req, limiterHandler(req))
              /\ UNCHANGED reached
       ELSE IF r[1] \in AuthLimited
         THEN /\ hits.authLimiter <= AuthLimiterMax
              /\ hits' = [limiter |-> total, authLimiter |-> authTotal]
              /\ IF Exceeds(authTotal, AuthLimiterMax)
                   THEN /\ Limited(req, authLimiterHandler(req))
                        /\ reached' = [reached EXCEPT !.limiter = @ + 1]
                   ELSE /\ Finish(1, dispatch(req, r[4]))
                        /\ reached' = [limiter |-> reached.limiter + 1,
                                       authLimiter |-> reached.authLimiter + 1]
       ELSE /\ hits' = [hits EXCEPT !.limiter = total]
            /\ Finish(1, dispatch(req, r[4]))
            /\ reached' = [reached EXCEPT !.limiter = @ + 1]
  /\ UNCHANGED <<store, adminPassword, wechatConfigured, now, arrivals, initial,
                 charged, otherWriter, subtracted, signups, adjusted>>

\* windowMs of limiter has passed: its store forgets the hits.
LimiterReset ==
  /\ hits.limiter > 0
  /\ hits' = [hits EXCEPT !.limiter = 0]
  /\ reached' = [reached EXCEPT !.limiter = 0]
  /\ UNCHANGED <<store, adminPassword, wechatConfigured, now, arrivals, slot, out,
                 initial, charged, otherWriter, subtracted, signups, adjusted>>

\* windowMs of authLimiter has passed.
AuthLimiterReset ==
  /\ hits.authLimiter > 0
  /\ hits' = [hits EXCEPT !.authLimiter = 0]
  /\ reached' = [reached EXCEPT !.authLimiter = 0]
  /\ UNCHANGED <<store, adminPassword, wechatConfigured, now, arrivals, slot, out,
                 initial, charged, otherWriter, subtracted, signups, adjusted>>

\* A request arrives at authenticateAdminOrUser, which no router of index.ts
\* mounts: the middleware responds, or calls next() with or without req.user.
ArriveAdminOrUser ==
  /\ out = NoOut
  /\ \E id \in Ids, header \in Headers :
       LET req == Request("", <<"2.0", "unknown.method">>, id, header)
           auth == authenticateAdminOrUser(header, adminPassword, now)
           sl == [AuthRan([IdleSlot EXCEPT !.req = req]) EXCEPT
                    !.user = auth.user, !.handlerRan = auth.next]
       IN out' = OutOf(sl, auth.resp)
  /\ UNCHANGED <<store, env, slot, hist>>

\* index.ts: app.post('/health'), after express.json
healthHandler(req) ==
  IF req.jsonrpc = "2.0" /\ req.method = "health.check"
    THEN sendSuccess([tag |-> "health", status |-> "OK"], OrNull(req.id))
    ELSE sendError(INVALID_REQUEST,
                   "Invalid JSON-RPC request. Expected method: health.check",
                   OrNull(req.id), NoData)

\* A client posts any envelope with any id to /health.
ArriveHealth ==
  /\ out = NoOut
  /\ \E jsonrpc \in {"2.0", "1.0", Undefined},
        method \in {"health.check", "unknown.method", Undefined},
        id \in Ids :
       LET req == Request("health", <<jsonrpc, method>>, id, <<>>)
           sl == [IdleSlot EXCEPT !.req = req, !.handlerRan = TRUE]
       IN out' = OutOf(sl, healthHandler(req))
  /\ UNCHANGED <<store, env, slot, hist>>

\* An administrator sends users.subtractPoints while no other request is in
\* flight.
ArriveSubtract ==
  /\ arrivals < MaxCalls
  /\ \A s \in Slots : slot[s].pc = "idle"
  /\ \E userId \in {1, 2}, points \in {-1, 0, 1, 2} :
       Arrive(1, Request("users", <<"2.0", "users.subtractPoints">>, Num7,
                         Bearer(Word(AdminSecret))),
              PointsParams(userId, points))

(***************************************************************************)
(* Specifications                                                          *)
(***************************************************************************)
DefaultConfig == [baseUrl |-> "default", apiKey |-> "default", model |-> "default"]

InitStore ==
  /\ \E b \in 0..MaxPoints :
       /\ users = <<UserRow("alice", hashPassword("secret1"), b, Null)>>
       /\ initial = b
  /\ prompts = {[id |-> 1, title |-> "t1"]}
  /\ nextPromptId = 2
  /\ config = DefaultConfig
  /\ now = 0
  /\ slot = [s \in Slots |-> IdleSlot]
  /\ out = NoOut
  /\ arrivals = 0
  /\ charged = 0
  /\ otherWriter = FALSE
  /\ subtracted = 0
  /\ hits = [limiter |-> 0, authLimiter |-> 0]
  /\ reached = [limiter |-> 0, authLimiter |-> 0]
  /\ signups = <<>>
  /\ adjusted = [added |-> 0, updated |-> FALSE]

Init ==
  /\ InitStore
  /\ \E e \in {<<AdminSecret, TRUE>>, <<"", FALSE>>} :
       /\ adminPassword = e[1]
       /\ wechatConfigured = e[2]

InitBalance ==
  /\ InitStore
  /\ adminPassword = AdminSecret
  /\ wechatConfigured = TRUE

Step(s) ==
  \/ ImgGetUser(s) \/ ImgGetConfig(s) \/ ImgProvider(s) \/ ImgSubGet(s)
  \/ ImgSubUpd(s)
  \/ UsersList(s) \/ UsersGet(s) \/ UpdateGet(s) \/ AddGet(s) \/ SubtractGet(s)
  \/ PointsUpdate(s) \/ UpdateReread(s) \/ AddReread(s) \/ SubtractReread(s)
  \/ MeGetUser(s)
  \/ ConfigGet(s) \/ ConfigSet(s) \/ ConfigReread(s)
  \/ PromptsList(s) \/ PromptsGet(s) \/ PromptsInsert(s) \/ PromptsReread(s)
  \/ PromptsUpdateGet(s) \/ PromptsUpdate(s) \/ PromptsDeleteGet(s)
  \/ PromptsDelete(s)
  \/ SignupLookup(s) \/ SignupHash(s) \/ SignupInsert(s) \/ SignupFetch(s)
  \/ LoginLookup(s) \/ LoginCompare(s)
  \/ WechatExchange(s) \/ WechatLookup(s) \/ WechatUserInfo(s) \/ WechatInsert(s)
  \/ WechatFetch(s)

BalanceStep(s) ==
  \/ ImgGetUser(s) \/ ImgGetConfig(s) \/ ImgProvider(s) \/ ImgSubGet(s)
  \/ ImgSubUpd(s)
  \/ AddGet(s) \/ SubtractGet(s) \/ UpdateGet(s)
  \/ PointsUpdate(s) \/ UpdateReread(s) \/ AddReread(s) \/ SubtractReread(s)
  \/ SignupLookup(s) \/ SignupHash(s) \/ SignupInsert(s) \/ SignupFetch(s)

\* Every request, one at a time.
Next == ArriveEnvelope \/ ArriveParams \/ Deliver \/ \E s \in Slots : Step(s)
Spec == Init /\ [][Next]_vars

\* A client sends any request, as in Spec.
ArriveLive ==
  /\ arrivals < MaxLive
  /\ (ArriveEnvelope \/ ArriveParams)

\* Every request, with every pending collaborator call returning or failing in
\* the end, and every response sent reaching the client.
NextLive == ArriveLive \/ Deliver \/ \E s \in Slots : Step(s)
SpecLive ==
  /\ Init
  /\ [][NextLive]_vars
  /\ \A s \in Slots : WF_vars(Step(s))
  /\ WF_vars(Deliver)

\* users.subtractPoints, one call after another.
NextSubtract ==
  \/ ArriveSubtract
  \/ Deliver
  \/ \E s \in Slots : SubtractGet(s) \/ PointsUpdate(s) \/ SubtractReread(s)
SpecSubtract == InitBalance /\ [][NextSubtract]_vars

\* The requests of one IP through the rate limiters, one at a time.
NextRate ==
  \/ ArriveLimited
  \/ LimiterReset
  \/ AuthLimiterReset
  \/ Deliver
  \/ \E s \in Slots : LoginLookup(s) \/ LoginCompare(s) \/ MeGetUser(s)
SpecRate == InitBalance /\ [][NextRate]_vars

\* The requests authenticateAdminOrUser decides.
NextAdminOrUser == ArriveAdminOrUser \/ Deliver
SpecAdminOrUser == Init /\ [][NextAdminOrUser]_vars

\* The tokens a caller can present: signed for either user with the server's
\* key, issuer and audience or with others, now or at the start of the clock.
SignedTokens ==
  {jwtSign(payload, key, iss, aud, issuedAt) :
     payload \in {Alice, Bob}, key \in {JWT_SECRET, "other-key"},
     iss \in {ISSUER, "other-issuer"}, aud \in {AUDIENCE, "other-audience"},
     issuedAt \in {0, now}}

\* AuthService.verifyToken(token) is applied at time now: it returns the
\* payload or throws.
ApplyVerifyToken ==
  /\ out = NoOut
  /\ \E token \in SignedTokens :
       LET req == Request("", <<Undefined, "verifyToken">>, Undefined, Bearer(token))
           sl == IF verifyToken(token, now)
                   THEN [IdleSlot EXCEPT !.req = req, !.user = TokenPayload(token)]
                   ELSE Caught([IdleSlot EXCEPT !.req = req], "JsonWebTokenError")
       IN out' = OutOf(sl, NoResp)
  /\ UNCHANGED <<store, env, slot, hist>>

\* Time passes.
Tick ==
  /\ out = NoOut
  /\ now < MaxHours
  /\ now' = now + ClockStep
  /\ UNCHANGED <<store, adminPassword, wechatConfigured, arrivals, hits, slot, out,
                 hist>>

\* The token functions alone, with a clock.
NextToken == ApplyVerifyToken \/ Tick \/ Deliver
SpecToken == Init /\ [][NextToken]_vars

\* The health endpoint alone.
NextHealth == ArriveHealth \/ Deliver
SpecHealth == Init /\ [][NextHealth]_vars

\* The balance requests, concurrently.
NextBalance == ArriveBalance \/ Deliver \/ \E s \in Slots : BalanceStep(s)
SpecBalance == InitBalance /\ [][NextBalance]_vars

(***************************************************************************)
(* Properties.  `out` is the response of the last step with its request,   *)
(* the locals of its handler and what the request did: its store reads and *)
(* writes, its provider calls, and which code ran for it.                  *)
(***************************************************************************)
Responded == out # NoOut
InFlight(s) == slot[s].pc # "idle"

\* The envelope as the client wrote it.
Malformed(req) == req.jsonrpc # "2.0" \/ req.method \in {Undefined, "", Num7}
UnknownMethod(req) == ~Malformed(req) /\ req.method \notin MethodsOf(req.route)

\* The credential as the client wrote it.
NoCredential(header) == Len(header) < 2 \/ header[2] = Word("")
ValidTokens == {TokAlice, TokBob}
HasValidToken(header) == Len(header) = 2 /\ header[2] \in ValidTokens
HasAdminSecret(header) == Len(header) = 2 /\ header[2] = Word(AdminSecret)

AdminMethod(req) ==
  /\ ~Malformed(req)
  /\ \/ req.route \in AdminRoutes /\ req.method \in MethodsOf(req.route)
     \/ req.route = "prompt_store" /\ req.method \in PromptWrites

\* The code of an admin-required method ran: the handler of config and users,
\* handleWriteOperations of prompt_store.
AdminCodeRan(o) == IF o.req.route = "prompt_store" THEN o.opRan ELSE o.handlerRan

NoStoreAccess(o) == o.reads = 0 /\ o.writes = 0

IsError(resp, code) == resp.status = 200 /\ resp.kind = "error" /\ resp.code = code
IsPlain(resp, status) == resp.kind = "plain" /\ resp.status = status

\* C1: an images.generate request whose generation failed (the provider
\* threw, or the platform is the unimplemented 'openai') has written no
\* balance, and its response is an error.
C1_FailedGenerationNotCharged ==
  (Responded /\ out.loc.tag = "img" /\ out.loc.gen = "failed")
    => /\ out.writes = 0
       /\ out.resp.kind = "error"

C1_Witness ==
  /\ Responded
  /\ out.req.method = "images.generate"
  /\ out.loc.tag = "img"
  /\ out.loc.platform = "openai"
  /\ out.loc.gen = "failed"
  /\ out.writes = 0
  /\ out.resp.code = INTERNAL_ERROR

\* C2: once every request is answered, with images.generate the only writer
\* of the balance of user 1, that balance is max(0, initial - k) for the k
\* successful generations.
C2_BalanceIsInitialMinusCharges ==
  ((\A s \in Slots : ~InFlight(s)) /\ ~otherWriter)
    => users[1].points = Max(0, initial - charged)

\* C3: an images.generate request that read a balance <= 0 is answered with
\* an error that carries the caller's id and {currentPoints, requiredPoints:
\* 1}; it has called no provider and written nothing, and it does not go on.
C3_InsufficientBalance ==
  /\ (Responded /\ out.loc.tag = "img" /\ out.loc.pts # NotNum /\ out.loc.pts <= 0)
       => /\ out.resp.kind = "error"
          /\ out.resp.id = out.req.id
          /\ out.resp.data = [tag |-> "points", currentPoints |-> out.loc.pts,
                              requiredPoints |-> 1]
          /\ out.calls = 0
          /\ out.writes = 0
  /\ \A s \in Slots :
       (InFlight(s) /\ slot[s].loc.tag = "img" /\ slot[s].loc.pts # NotNum)
         => slot[s].loc.pts > 0

C3_Witness ==
  /\ Responded
  /\ out.req.method = "images.generate"
  /\ out.loc.tag = "img"
  /\ out.loc.pts = 0
  /\ out.req.id = Num7
  /\ out.resp.id = Num7
  /\ out.resp.data.tag = "points"

\* The balances a response carries.
ReturnedPoints(resp) ==
  IF resp.kind = "result" THEN
    CASE resp.result.tag = "user" -> {resp.result.points}
      [] resp.result.tag = "users" ->
           {resp.result.rows[i].points : i \in DOMAIN resp.result.rows}
      [] resp.result.tag = "points" ->
           {resp.result.user.points} \cup ({resp.result.newPoints} \ {NotNum})
      [] resp.result.tag \in {"signup", "wechat"} -> {resp.result.user.points}
      [] OTHER -> {}
  ELSE IF resp.kind = "error" /\ resp.data.tag = "points"
    THEN {resp.data.currentPoints}
  ELSE {}

\* C4: every stored balance is >= 0 and every balance a response carries is
\* >= 0, under every interleaving of the balance requests.
C4_BalancesNonNegative ==
  /\ \A i \in 1..Len(users) : users[i].points >= 0
  /\ \A p \in ReturnedPoints(out.resp) : p >= 0

\* Two generations both passed the check on the last point: the second
\* decrement is floored at 0.
C4_Witness ==
  /\ Responded
  /\ out.req.method = "images.generate"
  /\ out.resp.kind = "result"
  /\ ~otherWriter
  /\ charged > initial
  /\ users[1].points = 0

\* C5: with a configured admin secret, a request to an admin-required method
\* whose credential is the secret runs the method's code; one whose
\* credential is missing or different is answered with HTTP 401, the code
\* does not run and the request reads and writes no store.
C5_AdminRequired ==
  /\ (Responded /\ AdminMethod(out.req) /\ adminPassword = AdminSecret)
       => IF HasAdminSecret(out.req.header)
            THEN AdminCodeRan(out) /\ out.resp.kind # "plain"
            ELSE /\ IsPlain(out.resp, 401)
                 /\ ~AdminCodeRan(out)
                 /\ NoStoreAccess(out)
  /\ \A s \in Slots :
       (InFlight(s) /\ AdminMethod(slot[s].req) /\ adminPassword = AdminSecret)
         => HasAdminSecret(slot[s].req.header) /\ AdminCodeRan(slot[s])

C5_Witness ==
  /\ Responded
  /\ adminPassword = AdminSecret
  /\ out.req.method = "users.updatePoints"
  /\ out.req.header = Bearer(Word("wrong-secret"))
  /\ IsPlain(out.resp, 401)
  /\ NoStoreAccess(out)

\* C6: a request to a user-required method without a credential is answered
\* with HTTP 401, one with a credential that does not verify (wrong key,
\* issuer or audience, expired, not a token) with HTTP 403, and in both cases
\* the handler does not run; with a credential that verifies, the handler
\* runs with the userId and username of the token as req.user.
C6_UserRequired ==
  /\ (Responded /\ out.req.route \in TokenRoutes /\ ~Malformed(out.req)
        /\ out.req.method \in MethodsOf(out.req.route))
       => IF NoCredential(out.req.header)
            THEN IsPlain(out.resp, 401) /\ ~out.handlerRan /\ NoStoreAccess(out)
          ELSE IF ~HasValidToken(out.req.header)
            THEN IsPlain(out.resp, 403) /\ ~out.handlerRan /\ NoStoreAccess(out)
          ELSE /\ out.handlerRan
               /\ out.resp.kind # "plain"
               /\ out.user = [userId |-> out.req.header[2].jwt.userId,
                              username |-> out.req.header[2].jwt.username]
  /\ \A s \in Slots :
       (InFlight(s) /\ slot[s].req.route \in TokenRoutes)
         => /\ HasValidToken(slot[s].req.header)
            /\ slot[s].user = [userId |-> slot[s].req.header[2].jwt.userId,
                               username |-> slot[s].req.header[2].jwt.username]

C6_Witness ==
  /\ Responded
  /\ out.req.method = "user.profile"
  /\ out.req.header = Bearer(TokExpired)
  /\ IsPlain(out.resp, 403)
  /\ ~out.handlerRan

\* The prompt reads are served whatever the header and the admin secret; with
\* the admin credential `accepted`, the prompt writes run, and otherwise they
\* are answered with HTTP `status`, do not run and leave the store alone.
PromptAccess(accepted, status) ==
  /\ (Responded /\ out.req.route = "prompt_store" /\ ~Malformed(out.req))
       => IF out.req.method \in PromptReads
            THEN out.opRan /\ ~out.authRan /\ out.resp.kind # "plain"
          ELSE IF out.req.method \in PromptWrites
            THEN IF accepted
                   THEN out.opRan /\ out.resp.kind # "plain"
                   ELSE /\ IsPlain(out.resp, status)
                        /\ ~out.opRan
                        /\ NoStoreAccess(out)
          ELSE TRUE
  /\ \A s \in Slots :
       (InFlight(s) /\ slot[s].req.route = "prompt_store"
          /\ slot[s].req.method \in PromptWrites)
         => adminPassword = AdminSecret /\ HasAdminSecret(slot[s].req.header)

\* C7 (as stated): prompts.list and prompts.get are served without a
\* credential, also when the admin secret is not configured; prompts.create,
\* prompts.update and prompts.delete without a valid admin credential are
\* answered with HTTP 401 and change nothing.
C7_PromptWritesRejected401 ==
  PromptAccess(adminPassword = AdminSecret /\ HasAdminSecret(out.req.header), 401)

\* C7 (amended): as above, but the writes are answered with HTTP 401 only
\* when the admin secret is configured; when it is not, every write is
\* answered with HTTP 500, whatever its credential.
C7_PromptWritesRejected ==
  PromptAccess(adminPassword = AdminSecret /\ HasAdminSecret(out.req.header),
               IF adminPassword = "" THEN 500 ELSE 401)

C7_Witness ==
  /\ Responded
  /\ adminPassword = ""
  /\ out.req.method = "prompts.create"
  /\ out.req.header = Bearer(Word(AdminSecret))
  /\ IsPlain(out.resp, 500)
  /\ NoStoreAccess(out)

ValidatorMessage == "Invalid JSON-RPC request format"

\* C8: a request whose jsonrpc is not "2.0" or whose method is absent, empty
\* or not a string is answered with INVALID_REQUEST and id null, whatever id
\* it carries; the validator rejects no other request, whatever its id.
C8_InvalidEnvelope ==
  Responded =>
    IF Malformed(out.req)
      THEN /\ IsError(out.resp, INVALID_REQUEST)
           /\ out.resp.message = ValidatorMessage
           /\ out.resp.id = Null
      ELSE out.resp.message # ValidatorMessage

C8_Witness ==
  /\ Responded
  /\ out.req.jsonrpc = "1.0"
  /\ out.req.id = Num7
  /\ IsError(out.resp, INVALID_REQUEST)
  /\ out.resp.id = Null

\* The credential passes the middleware of the route.
PassesMiddleware(req) ==
  IF req.route \in TokenRoutes THEN HasValidToken(req.header)
  ELSE IF req.route \in AdminRoutes
    THEN adminPassword = AdminSecret /\ HasAdminSecret(req.header)
  ELSE TRUE

MethodNotFound(o) == IsError(o.resp, METHOD_NOT_FOUND) /\ o.resp.id = o.req.id

\* C9 (as stated): a well-formed envelope whose method the namespace does not
\* have is answered with METHOD_NOT_FOUND and the caller's id, whatever its
\* credential.
C9_UnknownMethodAnyCredential ==
  (Responded /\ UnknownMethod(out.req)) => MethodNotFound(out)

\* C9 (amended): it is answered with METHOD_NOT_FOUND and the caller's id
\* when its credential passes the middleware of the route (login, signup,
\* wechat-login and prompt_store have none); on me, images, config and users
\* a credential that does not pass is answered by the middleware (HTTP 401,
\* 403 or 500) and the handler does not run.  It is never answered with
\* INVALID_REQUEST.
C9_UnknownMethod ==
  (Responded /\ UnknownMethod(out.req))
    => /\ IF PassesMiddleware(out.req)
            THEN MethodNotFound(out)
            ELSE /\ out.resp.kind = "plain"
                 /\ out.resp.status \in {401, 403, 500}
                 /\ ~out.handlerRan
       /\ out.resp.code # INVALID_REQUEST
       /\ NoStoreAccess(out)

C9_Witness ==
  /\ Responded
  /\ out.req.route = "users"
  /\ out.req.method = "unknown.method"
  /\ out.req.id = Num7
  /\ adminPassword = AdminSecret
  /\ out.req.header = Bearer(Word(AdminSecret))
  /\ MethodNotFound(out)

\* C10: a request with a malformed envelope is answered with INVALID_REQUEST
\* whatever its Authorization header, and neither an auth middleware nor a
\* handler has run for it.
C10_ValidatorFirst ==
  (Responded /\ Malformed(out.req))
    => /\ IsError(out.resp, INVALID_REQUEST)
       /\ ~out.authRan
       /\ ~out.handlerRan
       /\ ~out.opRan
       /\ NoStoreAccess(out)
       /\ out.calls = 0

C10_Witness ==
  /\ Responded
  /\ out.req.route = "users"
  /\ out.req.jsonrpc = "2.0"
  /\ out.req.method = Undefined
  /\ out.req.header = <<>>
  /\ IsError(out.resp, INVALID_REQUEST)
  /\ ~out.authRan

\* C11: an images.generate request whose credential is the admin secret, or
\* that carries no credential, is answered by authenticateToken (or by the
\* validator): the handler does not run, no balance is read, the provider is
\* not called and nothing is charged; no such request is ever in flight.
C11_MeteredNeedsUser ==
  /\ (Responded /\ out.req.route = "images"
        /\ (NoCredential(out.req.header) \/ HasAdminSecret(out.req.header)))
       => /\ ~out.handlerRan
          /\ NoStoreAccess(out)
          /\ out.calls = 0
          /\ IF Malformed(out.req) THEN IsError(out.resp, INVALID_REQUEST)
             ELSE IF NoCredential(out.req.header) THEN IsPlain(out.resp, 401)
             ELSE IsPlain(out.resp, 403)
  /\ \A s \in Slots :
       (InFlight(s) /\ slot[s].req.route = "images")
         => /\ ~NoCredential(slot[s].req.header)
            /\ ~HasAdminSecret(slot[s].req.header)
            /\ slot[s].user # NoUser

C11_Witness ==
  /\ Responded
  /\ out.req.method = "images.generate"
  /\ adminPassword = AdminSecret
  /\ out.req.header = Bearer(Word(AdminSecret))
  /\ IsPlain(out.resp, 403)
  /\ out.reads = 0

\* The answer of auth.login to a wrong username or password.
LoginRefused(o) ==
  o.resp = sendError(AUTHENTICATION_ERROR, "Invalid username or password",
                     o.req.id, [tag |-> "oauth", error |-> "invalid_grant"])

\* The lookup of the username was answered by the store: the username is
\* unknown, or it is known and the password is not the stored one.
LoginWrong(o) ==
  /\ o.req.route = "login"
  /\ o.req.method = "auth.login"
  /\ o.loc.tag = "auth"
  /\ o.reads = 1
  /\ \/ o.loc.userId = 0
     \/ o.loc.hash # hashPassword(o.loc.password)

\* C12: auth.login with an unknown username and auth.login with a known
\* username and a wrong password get the same response: AUTHENTICATION_ERROR
\* with the same message and data, and no token.
C12_LoginFailuresIndistinguishable ==
  (Responded /\ LoginWrong(out)) => LoginRefused(out)

\* The same, for passwords that are strings.
C12_StringPasswords ==
  (Responded /\ LoginWrong(out) /\ ~bcryptRejects(out.loc.password))
    => LoginRefused(out)

C12_Witness ==
  /\ Responded
  /\ LoginWrong(out)
  /\ out.loc.userId = 1
  /\ out.loc.password = "secret2"
  /\ LoginRefused(out)


\* The codes of JsonRpcErrorCode.
Taxonomy ==
  {PARSE_ERROR, INVALID_REQUEST, METHOD_NOT_FOUND, INVALID_PARAMS,
   INTERNAL_ERROR, AUTHENTICATION_ERROR, AUTHORIZATION_ERROR, VALIDATION_ERROR,
   NOT_FOUND, RATE_LIMIT_EXCEEDED}

\* The response is a rejection of authenticateToken or authenticateAdmin: a
\* plain body with a non-200 status, sent before the code the check guards.
AuthRejection(o) ==
  /\ o.resp.kind = "plain"
  /\ o.resp.status \in {401, 403, 500}
  /\ o.authRan
  /\ ~AdminCodeRan(o)
  /\ NoStoreAccess(o)

\* The response is a JSON-RPC body sent with HTTP 200: a result, or an error
\* whose code is of the taxonomy.
JsonRpcBody(resp) ==
  /\ resp.status = 200
  /\ \/ resp.kind = "result" /\ resp.data = NoData
     \/ resp.kind = "error" /\ resp.code \in Taxonomy /\ resp.message # ""
          /\ resp.result = NoData

\* JSON.stringify leaves out a member whose value is undefined.
HasIdMember(resp) == resp.id # Undefined

\* C13: every response of the validator or of a route handler is sent with
\* HTTP 200 and has the shape {jsonrpc, id, result | error{code, message,
\* data?}} with a code of the taxonomy; the only other responses are the
\* rejections of the auth middleware.
C13_FixedShape ==
  Responded =>
    \/ AuthRejection(out)
    \/ JsonRpcBody(out.resp) /\ HasIdMember(out.resp)

\* The same without the id member.
C13_Status200AndTaxonomy ==
  Responded => (AuthRejection(out) \/ JsonRpcBody(out.resp))

C13_Witness ==
  /\ Responded
  /\ out.handlerRan
  /\ out.resp.kind = "error"
  /\ out.resp.code = NOT_FOUND
  /\ out.resp.id = Num7


\* C14: while the admin secret is not configured, a request to an
\* admin-required method is answered with HTTP 500 'Admin password not
\* configured' whatever its credential, the method's code does not run and no
\* store is read or written; no such request is ever in flight.
C14_AdminNotConfigured ==
  /\ (Responded /\ AdminMethod(out.req) /\ adminPassword = "")
       => /\ out.resp = plainError(500, "Admin password not configured")
          /\ out.authRan
          /\ ~AdminCodeRan(out)
          /\ NoStoreAccess(out)
  /\ \A s \in Slots :
       (InFlight(s) /\ adminPassword = "") => ~AdminMethod(slot[s].req)

C14_Witness ==
  /\ Responded
  /\ adminPassword = ""
  /\ out.req.method = "users.addPoints"
  /\ out.req.header = <<>>
  /\ IsPlain(out.resp, 500)
  /\ ~out.handlerRan


\* C15: after users.subtractPoints calls with positive deltas on user 1, one
\* after another, the stored balance is max(0, initial - sum of the deltas),
\* and a successful call returns that value as newPoints and as user.points.
C15_SequentialSubtract ==
  /\ (\A s \in Slots : ~InFlight(s))
       => users[1].points = Max(0, initial - subtracted)
  /\ (Responded /\ out.resp.kind = "result" /\ out.loc.userId = 1)
       => /\ out.loc.points > 0
          /\ out.resp.result.newPoints = Max(0, initial - subtracted)
          /\ out.resp.result.user.points = users[1].points

\* Two calls, the second floored at 0.
C15_Witness ==
  /\ Responded
  /\ out.resp.kind = "result"
  /\ initial = 2
  /\ subtracted = 4
  /\ out.resp.result.newPoints = 0
  /\ users[1].points = 0


\* A store operation or the generation provider threw inside the handler.
CollaboratorFailed(o) == o.thrown \in {StoreError, "SQLITE_CONSTRAINT", "provider error"}

\* The data of the response carries the message of the error.
CarriesMessage(resp, message) ==
  resp.data \in {StrData(message), MsgData(message),
                 [tag |-> "oauth", error |-> "server_error", details |-> message]}

\* C16: a request in whose handler a store operation or the generation
\* provider failed is answered with HTTP 200, INTERNAL_ERROR, the message of
\* the failure in data, and the id of the request when it has one.
C16_FailureIsInternalError ==
  (Responded /\ CollaboratorFailed(out))
    => /\ IsError(out.resp, INTERNAL_ERROR)
       /\ CarriesMessage(out.resp, out.thrown)
       /\ out.req.id # Undefined => out.resp.id = out.req.id

\* The same, where the catch blocks that answer with req.body?.id || null
\* may answer a falsy id with null.
C16_FailureCaught ==
  (Responded /\ CollaboratorFailed(out))
    => /\ IsError(out.resp, INTERNAL_ERROR)
       /\ CarriesMessage(out.resp, out.thrown)
       /\ out.resp.id \in {out.req.id, OrNull(out.req.id)}

C16_Witness ==
  /\ Responded
  /\ out.req.method = "images.generate"
  /\ out.thrown = "provider error"
  /\ IsError(out.resp, INTERNAL_ERROR)
  /\ out.resp.id = Num0


\* The response reports a validation failure: a bad envelope, an unknown
\* method or bad params.
ValidationFailure(o) ==
  \/ IsError(o.resp, INVALID_REQUEST) /\ Malformed(o.req)
  \/ IsError(o.resp, METHOD_NOT_FOUND)
  \/ IsError(o.resp, INVALID_PARAMS)

\* C17: a request answered with INVALID_REQUEST for a bad envelope, with
\* METHOD_NOT_FOUND or with INVALID_PARAMS has read and written no store and
\* called neither the generation provider nor the WeChat API, and nothing
\* threw in its handler.
C17_ValidationIsLocal ==
  (Responded /\ ValidationFailure(out))
    => /\ out.reads = 0
       /\ out.writes = 0
       /\ out.calls = 0
       /\ out.thrown = ""

C17_Witness ==
  /\ Responded
  /\ out.req.method = "users.updatePoints"
  /\ out.handlerRan
  /\ IsError(out.resp, INVALID_PARAMS)
  /\ out.reads = 0


\* The user objects of a success response of the user endpoints.
UserObjects(result) ==
  CASE result.tag = "user" -> {result}
    [] result.tag = "users" -> {result.rows[i] : i \in DOMAIN result.rows}
    [] result.tag \in {"points", "signup", "wechat"} -> {result.user}
    [] OTHER -> {}

\* C18: a success response of auth.signup, auth.login, auth.wechat_login,
\* user.profile or a users.* method has no password member, neither in the
\* result nor in a user object of the result.
C18_NoPasswordInResponses ==
  (Responded /\ out.resp.kind = "result"
     /\ out.req.route \in {"signup", "login", "wechat-login", "me", "users"})
    => /\ "password" \notin DOMAIN out.resp.result
       /\ \A u \in UserObjects(out.resp.result) : "password" \notin DOMAIN u

C18_Witness ==
  /\ Responded
  /\ out.req.method = "users.get"
  /\ out.resp.kind = "result"
  /\ out.resp.result.username = "alice"
  /\ users[1].password = hashPassword("secret1")


\* The response of a limiter: no middleware of a router, no handler and no
\* store or provider access ran for the request.
RateLimited(o) ==
  /\ IsError(o.resp, RATE_LIMIT_EXCEEDED)
  /\ ~o.authRan
  /\ ~o.handlerRan
  /\ NoStoreAccess(o)
  /\ o.calls = 0

C19_WitnessGlobal ==
  /\ Responded
  /\ hits.limiter = LimiterMax + 1
  /\ reached.limiter = LimiterMax
  /\ RateLimited(out)


\* C20: authenticateAdminOrUser answers a request without a credential with
\* HTTP 401; it calls next() without req.user for the configured admin
\* secret, and with the token's userId and username as req.user for a token
\* that verifies; it answers any other credential with HTTP 403.  next() is
\* not called for a request it answers.
C20_AdminOrUser ==
  Responded =>
    LET header == out.req.header IN
    IF NoCredential(header)
      THEN IsPlain(out.resp, 401) /\ ~out.handlerRan
    ELSE IF adminPassword = AdminSecret /\ HasAdminSecret(header)
      THEN out.handlerRan /\ out.user = NoUser /\ out.resp = NoResp
    ELSE IF HasValidToken(header)
      THEN /\ out.handlerRan
           /\ out.user = TokenPayload(header[2])
           /\ out.resp = NoResp
    ELSE IsPlain(out.resp, 403) /\ ~out.handlerRan

C20_Witness ==
  /\ Responded
  /\ adminPassword = AdminSecret
  /\ out.req.header = Bearer(Word(AdminSecret))
  /\ out.authRan
  /\ out.handlerRan
  /\ out.user = NoUser


\* C21: an images.generate request for platform 'openai' never succeeds,
\* writes no balance and never reaches the provider call or the charge; once
\* the configuration was read it is answered with INTERNAL_ERROR 'Platform
\* not implemented', not with 'Failed to generate content'.
C21_UnimplementedPlatform ==
  /\ (Responded /\ out.loc.tag = "img" /\ out.loc.platform = "openai")
       => /\ out.resp.kind = "error"
          /\ out.writes = 0
          /\ (out.loc.gen = "failed" /\ out.thrown # StoreError)
               => /\ IsError(out.resp, INTERNAL_ERROR)
                  /\ out.resp.message = "Platform not implemented"
                  /\ out.resp.data = MsgData(NotImplemented)
                  /\ out.resp.id = out.req.id
  /\ \A s \in Slots :
       (InFlight(s) /\ slot[s].loc.tag = "img" /\ slot[s].loc.platform = "openai")
         => slot[s].pc \in {"img_getUser", "img_getConfig"}

C21_Witness ==
  /\ Responded
  /\ out.loc.tag = "img"
  /\ out.loc.platform = "openai"
  /\ out.loc.pts > 0
  /\ out.resp.message = "Platform not implemented"
  /\ users[1].points = initial


\* The provider's answer to the code exchange carried a failure code.
ExchangeFailed(loc) == loc.tag = "wechat" /\ ~Falsy(loc.errcode)

\* C22 as stated: whenever the answer of the code exchange has an errcode
\* member, the request is answered with AUTHENTICATION_ERROR and goes no
\* further.
C22_AnyErrcodeRejected ==
  /\ (Responded /\ out.loc.tag = "wechat" /\ out.loc.errcode # Undefined)
       => IsError(out.resp, AUTHENTICATION_ERROR)
  /\ \A s \in Slots :
       (InFlight(s) /\ slot[s].loc.tag = "wechat")
         => slot[s].loc.errcode = Undefined

\* C22: an answer of the code exchange with a non-zero errcode is answered
\* with AUTHENTICATION_ERROR whose data carries that code and the provider's
\* message; the store was neither read nor written, no token is issued and the
\* request goes no further.  An errcode of 0 is not a failure.
C22_ErrcodeRejected ==
  /\ (Responded /\ ExchangeFailed(out.loc))
       => /\ IsError(out.resp, AUTHENTICATION_ERROR)
          /\ out.resp.data.error = "wechat_auth_failed"
          /\ out.resp.data.wechat_error_code = out.loc.errcode
          /\ out.resp.data.wechat_error_msg = "invalid code"
          /\ out.resp.id = out.req.id
          /\ out.reads = 0
          /\ out.writes = 0
  /\ \A s \in Slots : InFlight(s) => ~ExchangeFailed(slot[s].loc)

C22_Witness ==
  /\ Responded
  /\ ExchangeFailed(out.loc)
  /\ out.calls = 1
  /\ out.resp.code = AUTHENTICATION_ERROR


\* A users.updatePoints request that reached const { userId, points } = params.
UpdatePointsRequest(o) ==
  /\ o.req.method = "users.updatePoints"
  /\ o.loc.tag = "users"

\* C23: the write of users.updatePoints(userId, points) happens only for
\* points >= 0 and an existing user, stores exactly points for that user and
\* leaves every other row as it was; the request is answered INVALID_PARAMS
\* when points < 0 and NOT_FOUND when the user does not exist, and a step that
\* ends in either answer changes no row and follows no write of the request.
C23_UpdatePointsFrame ==
  [][/\ \A s \in Slots :
          (slot[s].pc = "update_upd" /\ slot'[s].pc = "update_reread")
            => LET userId == slot[s].loc.userId
                   points == slot[s].loc.points
               IN /\ points >= 0
                  /\ UserExists(userId)
                  /\ Len(users') = Len(users)
                  /\ users'[userId].points = points
                  /\ \A j \in 1..Len(users) : j # userId => users'[j] = users[j]
     /\ (out = NoOut /\ out' # NoOut /\ UpdatePointsRequest(out'))
          => LET userId == out'.loc.userId
                 points == out'.loc.points
             IN /\ points < 0 => IsError(out'.resp, INVALID_PARAMS)
                /\ (points >= 0 /\ ~UserExists(userId) /\ out'.thrown = "")
                     => IsError(out'.resp, NOT_FOUND)
                /\ (IsError(out'.resp, INVALID_PARAMS) \/ IsError(out'.resp, NOT_FOUND))
                     => /\ users' = users
                        /\ out'.writes = 0
                        /\ points < 0 \/ ~UserExists(userId)
                /\ out'.resp.kind = "result"
                     => /\ points >= 0
                        /\ out'.writes = 1
                        /\ users'[userId].points = points
                        /\ out'.resp.result.user.points = points
    ]_vars

C23_Witness ==
  /\ Len(users) = 2
  /\ \E s \in Slots :
       /\ slot[s].pc = "update_reread"
       /\ slot[s].loc.userId = 1
       /\ users[1].points = slot[s].loc.points
       /\ users[1].points # initial
       /\ users[2].points = DefaultPoints
       /\ DefaultPoints # slot[s].loc.points


\* The rows of the users table with the username.
RowsOf(username) == {i \in 1..Len(users) : users[i].username = username}

\* C24: no two rows of the users table share a username and no two success
\* responses of auth.signup are for the same username, under every
\* interleaving of concurrent signups; a signup whose lookup finds the
\* username is answered with VALIDATION_ERROR and data {conflict: true}
\* without a write, an INSERT for a username that exists adds no row, and a
\* success response follows the request's own INSERT and carries a token for
\* the row it created.
C24_UniqueUsernames ==
  /\ [](/\ \A i, j \in 1..Len(users) :
             i # j => users[i].username # users[j].username
        /\ \A i, j \in 1..Len(signups) : i # j => signups[i] # signups[j]
        /\ (Responded /\ out.req.method = "auth.signup" /\ out.resp.kind = "result")
             => /\ out.writes = 1
                /\ RowsOf(out.loc.username) = {out.loc.userId}
                /\ out.resp.result.access_token =
                     generateToken([userId |-> out.loc.userId,
                                    username |-> out.loc.username], now))
  /\ [][\A s \in Slots :
          /\ (slot[s].pc = "signup_lookup" /\ slot'[s].pc = "idle"
                /\ RowsOf(slot[s].loc.username) # {} /\ out'.thrown = "")
               => /\ IsError(out'.resp, VALIDATION_ERROR)
                  /\ out'.resp.data = [tag |-> "conflict", conflict |-> TRUE]
                  /\ out'.writes = 0
                  /\ users' = users
          /\ (slot[s].pc = "signup_insert" /\ slot'[s].pc # "signup_insert"
                /\ RowsOf(slot[s].loc.username) # {})
               => /\ users' = users
                  /\ out'.resp.kind = "error"
                  /\ signups' = signups
     ]_vars

\* Two concurrent signups for one username: one has succeeded, the other lost
\* the race at its INSERT.
C24_Witness ==
  /\ signups = <<"bob">>
  /\ Cardinality(RowsOf("bob")) = 1
  /\ Responded
  /\ out.req.method = "auth.signup"
  /\ out.loc.username = "bob"
  /\ out.thrown = "SQLITE_CONSTRAINT"


\* The body is a health.check envelope.
HealthCheck(req) == req.jsonrpc = "2.0" /\ req.method = "health.check"

\* C25: a POST /health whose body is not a health.check envelope is answered
\* with INVALID_REQUEST at id null, whatever id the body carries; a
\* health.check envelope is answered with a result at the id of the request.
C25_HealthMalformedAtNull ==
  (Responded /\ out.req.route = "health")
    => IF HealthCheck(out.req)
         THEN /\ out.resp.kind = "result"
              /\ out.resp.result.status = "OK"
              /\ out.req.id # Undefined => out.resp.id = out.req.id
         ELSE /\ IsError(out.resp, INVALID_REQUEST)
              /\ out.resp.id = Null

\* What the handler does: the answer is a result exactly for a health.check
\* envelope and INVALID_REQUEST otherwise, both at the id of the body, or at
\* null when that id is absent or falsy.
C25_HealthEchoesId ==
  (Responded /\ out.req.route = "health")
    => /\ out.resp.status = 200
       /\ out.resp.id = OrNull(out.req.id)
       /\ IF HealthCheck(out.req)
            THEN out.resp.kind = "result" /\ out.resp.result.status = "OK"
            ELSE IsError(out.resp, INVALID_REQUEST)


\* verifyToken has been applied to the token of `o`.
Verified(o) == o.req.method = "verifyToken"
Presented(o) == BearerOf(o.req.header)

C26_WitnessExpired ==
  /\ Responded
  /\ Verified(out)
  /\ now = ExpiresInHours
  /\ Presented(out) = generateToken(Alice, 0)
  /\ out.thrown # ""


\* C27: the balance check of images.generate depends on the stored balance
\* alone, not on the generations in flight: whenever the check runs with a
\* stored balance > 0 and the read succeeds, the request goes on to the
\* provider, and it is answered 'Insufficient points' only for a stored
\* balance <= 0.  (With balance 1, two concurrent requests therefore both pass:
\* the witness.)
C27_CheckNotSerialized ==
  [][\A s \in Slots :
       (slot[s].pc = "img_getUser" /\ slot'[s] # slot[s]
          /\ UserExists(slot[s].user.userId))
         => LET points == users[slot[s].user.userId].points IN
            \/ /\ points > 0
               /\ slot'[s].pc = "img_getConfig"
               /\ slot'[s].loc.pts = points
               /\ slot'[s].calls = 1
            \/ /\ points <= 0
               /\ slot'[s].pc = "idle"
               /\ IsError(out'.resp, INVALID_REQUEST)
               /\ out'.resp.data.tag = "points"
            \/ /\ slot'[s].pc = "idle"
               /\ out'.thrown = StoreError
    ]_vars

\* From a balance of 1, two generations have been answered with success.
C27_Witness ==
  /\ initial = 1
  /\ charged = 2
  /\ ~otherWriter
  /\ Responded
  /\ out.req.method = "images.generate"
  /\ out.resp.kind = "result"
  /\ out.loc.pts = 1
  /\ out.calls = 1


\* The provider call of the images.generate request of `o` succeeded.
Generated(o) ==
  /\ o.req.method = "images.generate"
  /\ o.loc.tag = "img"
  /\ o.loc.gen = "ok"

\* C28: a success response of images.generate is sent only by the step that
\* completed the charge of a generation that succeeded; when the provider
\* succeeded and a step of the charge failed, the request is answered with
\* INTERNAL_ERROR without the content, it has written nothing, and the stored
\* balance is the one the request read at its check.
C28_SuccessAfterCharge ==
  /\ (Responded /\ out.req.method = "images.generate" /\ out.resp.kind = "result")
       => /\ Generated(out)
          /\ out.writes = 1
          /\ out.thrown = ""
          /\ out.loc.newPoints = users[out.user.userId].points
  /\ (Responded /\ Generated(out) /\ out.resp.kind # "result")
       => /\ IsError(out.resp, INTERNAL_ERROR)
          /\ out.resp.message = "Failed to generate content"
          /\ out.resp.result = NoData
          /\ out.thrown \in {StoreError, "User not found"}
          /\ out.resp.data = MsgData(out.thrown)
          /\ out.writes = 0
          /\ users[out.user.userId].points = out.loc.pts

\* The provider succeeded, the charge read the balance, and its UPDATE failed.
C28_Witness ==
  /\ Responded
  /\ Generated(out)
  /\ IsError(out.resp, INTERNAL_ERROR)
  /\ out.thrown = StoreError
  /\ out.loc.newPoints = out.loc.pts - UnitCost
  /\ users[out.user.userId].points = out.loc.pts


\* Every request is answered.
Quiescent == \A s \in Slots : ~InFlight(s)

\* C29: a successful users.addPoints(1, p) returns as newPoints the balance it
\* read plus p, and once every request is answered, with users.addPoints and
\* the charge of images.generate the only writers of the balance of user 1,
\* that balance is the initial one plus the deltas added minus one per
\* successful generation, floored at 0: no update is lost.
C29_NoUpdateLost ==
  /\ (Responded /\ out.req.method = "users.addPoints" /\ out.resp.kind = "result"
        /\ out.loc.userId = 1)
       => /\ out.loc.points > 0
          /\ out.resp.result.newPoints = out.loc.newPoints
  /\ (Quiescent /\ adjusted.added > 0 /\ ~adjusted.updated /\ subtracted = 0)
       => users[1].points = Max(0, initial + adjusted.added - charged)


\* C30: a request leaves its slot only together with a response for it; a
\* response is sent only by the arrival of a request that is answered before
\* its first await, or by the step that ends a request in flight, after which
\* that request is in flight no more; and every request in flight is
\* answered in the end, as every response is delivered.
C30_ExactlyOneResponse ==
  /\ [][/\ \A s \in Slots :
             (InFlight(s) /\ slot'[s].pc = "idle")
               => /\ out' # NoOut
                  /\ out'.req = slot[s].req
        /\ (out' # NoOut /\ out' # out)
             => \/ /\ arrivals' = arrivals + 1
                   /\ slot' = slot
                \/ \E s \in Slots :
                     /\ InFlight(s)
                     /\ slot'[s] = IdleSlot
                     /\ out'.req = slot[s].req
                     /\ \A t \in Slots \ {s} : slot'[t] = slot[t]
       ]_vars
  /\ \A s \in Slots : InFlight(s) ~> ~InFlight(s)
  /\ Responded ~> ~Responded

\* A request was answered after a collaborator failure late in its handler,
\* and nothing is in flight.
C30_Witness ==
  /\ arrivals = MaxLive
  /\ \A s \in Slots : ~InFlight(s)
  /\ Responded
  /\ out.thrown = StoreError
  /\ out.reads + out.writes + out.calls > 1

====
